---- MODULE Spec2Model ----
(***************************************************************************)
(* ML-KEM over a rank-1 K-PKE (DhanrajRateria/quantum_suite,               *)
(* key-encapsulation).  Python lists and bytes objects are TLA+ sequences;  *)
(* the Python index i of a list s is At(s, i).  A Python exception is a     *)
(* separate predicate f_raises(...) next to the value operator f(...).      *)
(***************************************************************************)
EXTENDS Integers, Sequences, FiniteSets, TLC

VARIABLES
    cd_pc, cd_d, cd_F, cd_B, cd_G,      \* byte_encode / byte_decode calls
    cx_pc, cx_d, cx_x, cx_y, cx_z,      \* compress / decompress calls
    xof_ctx, xof_out,                   \* an XOF object and what it squeezed
    sn_pc, sn_B, sn_ctx, sn_coefficients, sn_tick,  \* a sample_ntt call
    nt_pc, nt_f, nt_g, nt_f_hat, nt_g_hat, nt_h_hat, nt_f_back, nt_h,  \* NTT calls
    pk_pc, pk_kg, pk_ek, pk_dk, pk_enc, pk_c, pk_dec, pk_m,            \* a K-PKE run
    km_pc, km_kg, km_ek, km_dk, km_enc, km_c, km_K, km_dec, km_K2,     \* an ML-KEM run
    ei_pc, ei_ek, ei_call, ei_out, ei_call2, ei_out2,     \* ml_kem_encaps_internal calls
    os_urandom,     \* the values os.urandom has returned, in call order
    mg_pc, mg_m, mg_poly, mg_out,     \* encode_message / decode_message calls
    cb_pc, cb_eta, cb_B, cb_out,     \* a sample_poly_cbd call
    zeta_precomp, gamma_precomp, tb_pc, tb_i, tb_rev, tb_zeta, tb_gamma,     \* the module-level tables, and a lookup in them
    rg_pc, rg_sum, rg_w_hat      \* poly_add and the subtraction of Decrypt

codecVars == <<cd_pc, cd_d, cd_F, cd_B, cd_G, cx_pc, cx_d, cx_x, cx_y, cx_z>>
xofVars == <<xof_ctx, xof_out>>
sampleVars == <<sn_pc, sn_B, sn_ctx, sn_coefficients, sn_tick>>
nttVars == <<nt_pc, nt_f, nt_g, nt_f_hat, nt_g_hat, nt_h_hat, nt_f_back, nt_h>>
pkeVars == <<pk_pc, pk_kg, pk_ek, pk_dk, pk_enc, pk_c, pk_dec, pk_m>>
kemVars == <<km_pc, km_kg, km_ek, km_dk, km_enc, km_c, km_K, km_dec, km_K2>>
encapsVars == <<ei_pc, ei_ek, ei_call, ei_out, ei_call2, ei_out2>>
rngVars == <<os_urandom>>
messageVars == <<mg_pc, mg_m, mg_poly, mg_out>>
cbdVars == <<cb_pc, cb_eta, cb_B, cb_out>>
tableVars == <<zeta_precomp, gamma_precomp, tb_pc, tb_i, tb_rev, tb_zeta, tb_gamma>>
ringVars == <<rg_pc, rg_sum, rg_w_hat>>
vars == <<codecVars, xofVars, sampleVars, nttVars, pkeVars, kemVars, encapsVars, rngVars, messageVars, cbdVars, tableVars, ringVars>>

\* no os.urandom call made yet
RngIdle == os_urandom = <<>>

Q == 3329
N == 256

At(s, i) == s[i + 1]

Pow2(e) == 2 ^ e

\* Python's x >> j and x << j on non-negative integers
Shr(x, j) == x \div Pow2(j)
Shl(x, j) == x * Pow2(j)

\* bytes([b]) * n
Rep(b, n) == [i \in 1..n |-> b]

Range(s) == {s[i] : i \in DOMAIN s}

\* a Python list built from its elements
List(f) == SubSeq(f, 1, Len(f))

(***************************************************************************)
(* auxiliary/cryptographic/functions.py : hash suite                       *)
(***************************************************************************)
\* hashlib.shake_128(data).digest(16) for the inputs the model absorbs:
\* the strings over b'a', b'b' of length <= 3, and bytes([i])*32 + b'\x00\x00'
\* for i in SeedBytes.
Shake128Table == <<
    [data |-> <<>>,
     out |-> <<127, 156, 43, 164, 232, 143, 130, 125, 97, 96, 69, 80, 118, 5, 133, 62>>],
    [data |-> <<97>>,
     out |-> <<133, 200, 222, 136, 210, 136, 102, 191, 8, 104, 9, 11, 57, 97, 22, 43>>],
    [data |-> <<98>>,
     out |-> <<240, 255, 163, 67, 53, 239, 151, 159, 207, 121, 162, 0, 135, 71, 73, 218>>],
    [data |-> <<97, 97>>,
     out |-> <<36, 92, 223, 186, 214, 204, 123, 191, 127, 134, 198, 155, 181, 38, 107, 142>>],
    [data |-> <<97, 98>>,
     out |-> <<53, 144, 215, 207, 24, 186, 63, 234, 56, 243, 168, 223, 81, 239, 133, 193>>],
    [data |-> <<98, 97>>,
     out |-> <<122, 183, 194, 148, 134, 132, 130, 94, 104, 113, 188, 28, 189, 194, 73, 29>>],
    [data |-> <<98, 98>>,
     out |-> <<83, 14, 169, 185, 236, 182, 165, 164, 34, 251, 206, 119, 73, 33, 5, 247>>],
    [data |-> <<97, 97, 97>>,
     out |-> <<193, 138, 185, 173, 218, 176, 46, 210, 237, 25, 59, 235, 158, 107, 202, 186>>],
    [data |-> <<97, 97, 98>>,
     out |-> <<96, 0, 139, 190, 163, 28, 118, 23, 201, 103, 141, 231, 193, 254, 30, 241>>],
    [data |-> <<97, 98, 97>>,
     out |-> <<94, 97, 210, 229, 81, 235, 140, 143, 247, 142, 129, 85, 69, 95, 135, 162>>],
    [data |-> <<97, 98, 98>>,
     out |-> <<114, 169, 140, 207, 223, 125, 8, 191, 181, 253, 159, 173, 230, 198, 118, 186>>],
    [data |-> <<98, 97, 97>>,
     out |-> <<9, 187, 19, 144, 221, 127, 44, 225, 35, 116, 249, 21, 254, 255, 202, 70>>],
    [data |-> <<98, 97, 98>>,
     out |-> <<207, 177, 122, 157, 158, 195, 8, 143, 226, 251, 216, 180, 139, 94, 244, 107>>],
    [data |-> <<98, 98, 97>>,
     out |-> <<132, 79, 53, 79, 79, 129, 250, 136, 220, 229, 102, 130, 189, 136, 28, 2>>],
    [data |-> <<98, 98, 98>>,
     out |-> <<51, 231, 222, 153, 128, 65, 238, 31, 125, 165, 16, 65, 58, 129, 47, 73>>],
    [data |-> Rep(0, 32) \o <<0, 0>>,
     out |-> <<73, 223, 217, 128, 155, 188, 84, 1, 74, 171, 204, 106, 154, 25, 245, 237>>],
    [data |-> Rep(1, 32) \o <<0, 0>>,
     out |-> <<54, 134, 184, 10, 221, 224, 232, 233, 51, 93, 57, 5, 30, 21, 143, 32>>],
    [data |-> Rep(5, 32) \o <<0, 0>>,
     out |-> <<9, 94, 51, 253, 245, 44, 146, 124, 96, 187, 101, 51, 227, 211, 105, 58>>],
    [data |-> Rep(9, 32) \o <<0, 0>>,
     out |-> <<146, 249, 227, 26, 102, 195, 39, 4, 101, 138, 10, 89, 221, 238, 24, 230>>],
    [data |-> Rep(2, 32) \o <<0, 0>>,
     out |-> <<71, 181, 17, 1, 206, 95, 232, 37, 150, 116, 194, 18, 130, 210, 120, 16>>],
    [data |-> Rep(3, 32) \o <<0, 0>>,
     out |-> <<143, 134, 128, 149, 94, 14, 164, 147, 139, 250, 174, 9, 48, 90, 241, 31>>]
    >>

\* the first 16 bytes of the SHAKE128 output stream of data
Shake128Stream(data) == (CHOOSE row \in Range(Shake128Table) : row.data = data).out

\* class XOF: _ctx is a hashlib.shake_128 object, modelled by the bytes it
\* has absorbed
XOF_init == <<>>

XOF_absorb(ctx, data) == ctx \o data

\* a streaming squeeze that resumes at stream offset `from`
XOF_squeeze_from(ctx, from, length) == SubSeq(Shake128Stream(ctx), from + 1, from + length)

\* self._ctx.digest(length): the first `length` bytes of the stream
XOF_squeeze(ctx, length) == SubSeq(Shake128Stream(ctx), 1, length)

(***************************************************************************)
(* sha3_256, sha3_512, shake256 and the functions PRF, H, G built on them.  *)
(* The digests are those hashlib computes for the inputs listed.            *)
(***************************************************************************)
\* hashlib.shake_256(data).digest(128) for the PRF inputs the model reaches
Shake256Table == <<
    [data |-> Rep(1, 32) \o <<0>>,
     out |-> <<230, 1, 55, 38, 219, 104, 92, 43, 237, 1, 147, 216, 61, 23, 169, 52, 70, 17, 191, 196, 83, 232, 138, 121, 139, 35, 164, 122, 236, 50, 48, 45, 242, 231, 193, 36, 79, 162, 43, 194, 108, 24, 131, 47, 41, 77, 117, 97, 244, 16, 69, 197, 150, 244, 141, 255, 91, 142, 202, 221, 248, 68, 161, 133, 126, 125, 83, 121, 87, 184, 133, 220, 6, 60, 188, 218, 83, 20, 17, 225, 6, 118, 240, 113, 193, 173, 230, 202, 138, 133, 71, 175, 31, 91, 33, 1, 40, 64, 58, 252, 248, 181, 181, 218, 69, 122, 187, 35, 249, 248, 151, 55, 179, 154, 234, 34, 120, 102, 181, 5, 197, 17, 251, 50, 99, 91, 1, 252>>],
    [data |-> Rep(1, 32) \o <<1>>,
     out |-> <<60, 7, 27, 82, 42, 60, 6, 76, 219, 36, 176, 148, 18, 50, 73, 179, 69, 175, 209, 94, 225, 236, 9, 132, 28, 101, 198, 19, 72, 37, 238, 119, 39, 155, 114, 247, 45, 224, 253, 50, 237, 225, 92, 38, 254, 9, 48, 192, 77, 174, 68, 88, 109, 95, 56, 255, 233, 106, 150, 185, 192, 209, 101, 250, 199, 219, 249, 26, 21, 250, 216, 200, 244, 36, 23, 6, 107, 78, 213, 196, 15, 36, 118, 111, 102, 156, 213, 127, 71, 92, 115, 37, 160, 65, 149, 241, 79, 49, 198, 91, 91, 219, 19, 144, 87, 181, 103, 63, 124, 60, 14, 79, 226, 114, 229, 21, 52, 116, 184, 57, 215, 24, 244, 61, 54, 45, 139, 220>>],
    [data |-> Rep(2, 32) \o <<0>>,
     out |-> <<241, 190, 196, 234, 179, 33, 246, 62, 22, 182, 186, 125, 112, 175, 57, 253, 98, 12, 9, 151, 174, 137, 119, 214, 63, 90, 68, 189, 194, 242, 128, 255, 186, 149, 240, 144, 225, 86, 18, 17, 112, 225, 67, 242, 140, 32, 169, 15, 172, 207, 132, 129, 53, 19, 6, 232, 32, 212, 162, 26, 220, 248, 90, 167, 35, 107, 39, 51, 109, 135, 5, 156, 25, 196, 114, 226, 13, 119, 84, 179, 233, 203, 54, 167, 134, 197, 129, 203, 69, 245, 185, 230, 96, 115, 15, 116, 199, 101, 9, 85, 253, 225, 49, 144, 0, 117, 193, 71, 212, 93, 127, 33, 182, 94, 199, 226, 210, 139, 12, 231, 116, 199, 241, 244, 105, 167, 61, 241>>],
    [data |-> Rep(2, 32) \o <<1>>,
     out |-> <<213, 128, 234, 48, 63, 0, 192, 14, 234, 33, 238, 5, 184, 46, 4, 3, 141, 101, 189, 127, 25, 85, 200, 130, 48, 46, 187, 103, 168, 5, 248, 137, 249, 200, 30, 187, 146, 160, 80, 210, 226, 121, 140, 193, 203, 53, 4, 106, 140, 241, 51, 209, 172, 16, 253, 141, 235, 114, 6, 228, 200, 220, 242, 63, 143, 34, 246, 234, 54, 5, 61, 98, 127, 4, 199, 15, 165, 194, 68, 213, 137, 73, 16, 19, 0, 254, 162, 54, 187, 171, 113, 224, 3, 84, 201, 162, 227, 218, 62, 44, 193, 253, 36, 199, 93, 172, 211, 185, 85, 207, 216, 98, 23, 187, 90, 142, 113, 236, 49, 88, 211, 186, 174, 189, 168, 183, 142, 37>>],
    [data |-> Rep(3, 32) \o <<0>>,
     out |-> <<217, 121, 20, 163, 14, 186, 81, 12, 37, 7, 22, 189, 197, 254, 55, 93, 89, 35, 98, 253, 13, 218, 160, 204, 190, 129, 62, 199, 175, 229, 202, 190, 189, 79, 118, 142, 86, 67, 29, 111, 76, 153, 134, 178, 75, 168, 175, 75, 215, 58, 77, 60, 252, 219, 213, 239, 240, 122, 82, 127, 132, 238, 127, 4, 168, 19, 34, 84, 112, 210, 216, 17, 104, 204, 135, 66, 90, 178, 86, 236, 248, 92, 243, 33, 247, 66, 244, 250, 21, 192, 56, 45, 127, 140, 79, 226, 145, 147, 242, 188, 109, 246, 44, 228, 202, 133, 116, 108, 89, 79, 176, 69, 161, 76, 230, 44, 208, 40, 80, 112, 151, 74, 167, 196, 152, 122, 242, 252>>],
    [data |-> Rep(3, 32) \o <<1>>,
     out |-> <<39, 40, 78, 106, 183, 244, 158, 42, 183, 182, 238, 196, 2, 181, 117, 71, 219, 134, 18, 12, 228, 108, 24, 118, 248, 189, 90, 118, 103, 95, 9, 18, 242, 129, 39, 176, 241, 112, 247, 194, 102, 247, 23, 87, 46, 234, 235, 204, 88, 223, 30, 163, 180, 146, 219, 30, 72, 193, 193, 3, 210, 82, 141, 7, 226, 170, 111, 142, 242, 181, 255, 48, 37, 130, 81, 121, 155, 77, 254, 254, 163, 248, 226, 70, 11, 37, 129, 43, 224, 70, 15, 175, 104, 127, 236, 103, 143, 167, 207, 110, 100, 183, 193, 166, 122, 173, 27, 220, 231, 232, 29, 206, 221, 28, 189, 211, 219, 32, 3, 223, 180, 138, 90, 248, 136, 103, 36, 140>>],
    [data |-> Rep(1, 32) \o <<2>>,
     out |-> <<34, 99, 205, 113, 141, 105, 95, 192, 162, 229, 128, 125, 13, 37, 182, 173, 254, 252, 211, 94, 54, 18, 183, 60, 61, 35, 69, 175, 254, 137, 1, 15, 185, 118, 102, 136, 3, 154, 161, 114, 37, 24, 177, 69, 244, 129, 158, 114, 167, 89, 241, 15, 45, 97, 113, 203, 140, 133, 245, 125, 235, 182, 150, 178, 47, 135, 59, 230, 222, 32, 81, 62, 156, 154, 40, 186, 181, 60, 175, 77, 144, 48, 93, 73, 24, 232, 51, 2, 63, 112, 198, 132, 126, 185, 58, 201, 234, 81, 69, 236, 189, 46, 39, 217, 176, 78, 163, 113, 241, 127, 35, 20, 39, 101, 19, 203, 236, 151, 26, 109, 6, 144, 173, 121, 0, 13, 51, 115>>],
    [data |-> Rep(2, 32) \o <<2>>,
     out |-> <<240, 152, 200, 101, 36, 42, 128, 37, 227, 118, 181, 93, 116, 181, 220, 196, 23, 103, 90, 93, 76, 66, 29, 2, 21, 108, 0, 129, 86, 172, 117, 38, 122, 129, 243, 205, 172, 3, 140, 196, 75, 196, 132, 205, 161, 19, 112, 42, 7, 205, 114, 239, 252, 75, 190, 218, 164, 113, 249, 240, 31, 93, 30, 44, 101, 168, 44, 172, 192, 43, 195, 5, 224, 91, 251, 135, 40, 66, 98, 7, 138, 162, 17, 151, 71, 35, 113, 157, 63, 238, 119, 231, 79, 131, 192, 207, 162, 169, 126, 183, 147, 151, 168, 238, 202, 173, 2, 235, 23, 182, 100, 88, 66, 220, 97, 91, 248, 42, 109, 202, 106, 165, 121, 243, 99, 49, 247, 30>>],
    [data |-> Rep(3, 32) \o <<2>>,
     out |-> <<207, 80, 39, 59, 96, 107, 82, 20, 73, 31, 71, 210, 4, 136, 48, 198, 30, 61, 148, 121, 238, 46, 30, 10, 60, 192, 25, 174, 126, 54, 145, 32, 76, 36, 138, 134, 47, 167, 236, 115, 223, 27, 176, 37, 36, 108, 65, 41, 8, 145, 62, 2, 152, 38, 100, 110, 124, 190, 59, 99, 70, 203, 24, 97, 143, 71, 111, 1, 185, 86, 57, 161, 119, 210, 59, 224, 165, 167, 211, 174, 242, 222, 15, 228, 156, 210, 60, 38, 172, 203, 198, 200, 50, 191, 200, 96, 39, 105, 185, 33, 102, 66, 56, 173, 221, 138, 50, 56, 178, 91, 177, 156, 174, 229, 11, 85, 215, 192, 202, 191, 180, 247, 253, 60, 28, 185, 6, 235>>],
    [data |-> <<72, 188, 202, 26, 183, 13, 78, 151, 230, 244, 230, 38, 15, 252, 231, 82, 129, 119, 135, 202, 53, 84, 78, 218, 113, 209, 85, 170, 3, 166, 104, 76, 0>>,
     out |-> <<153, 11, 230, 204, 172, 132, 70, 81, 133, 210, 243, 223, 66, 210, 113, 79, 245, 146, 182, 44, 148, 102, 194, 92, 247, 153, 19, 42, 124, 123, 21, 84, 110, 139, 158, 203, 177, 167, 110, 254, 222, 70, 77, 8, 4, 114, 215, 29, 129, 185, 10, 63, 29, 116, 233, 70, 170, 102, 98, 90, 89, 43, 40, 44, 234, 146, 113, 23, 130, 61, 51, 242, 223, 22, 129, 97, 99, 231, 216, 190, 103, 155, 17, 187, 169, 215, 52, 55, 137, 8, 51, 54, 129, 189, 215, 214, 51, 150, 196, 110, 250, 236, 77, 229, 164, 114, 110, 203, 183, 59, 214, 54, 239, 39, 177, 163, 65, 173, 123, 176, 55, 64, 79, 167, 138, 212, 169, 216>>],
    [data |-> <<72, 188, 202, 26, 183, 13, 78, 151, 230, 244, 230, 38, 15, 252, 231, 82, 129, 119, 135, 202, 53, 84, 78, 218, 113, 209, 85, 170, 3, 166, 104, 76, 1>>,
     out |-> <<48, 141, 62, 120, 216, 193, 148, 252, 132, 237, 139, 229, 229, 43, 190, 135, 202, 23, 228, 104, 177, 75, 244, 23, 200, 229, 190, 79, 19, 59, 25, 247, 47, 135, 176, 179, 233, 58, 1, 249, 183, 199, 174, 33, 8, 157, 223, 106, 78, 250, 160, 75, 203, 119, 70, 173, 110, 112, 107, 217, 56, 27, 120, 161, 192, 212, 106, 208, 60, 194, 66, 156, 28, 68, 31, 148, 196, 180, 253, 114, 53, 221, 42, 189, 163, 208, 171, 27, 181, 208, 35, 181, 39, 33, 142, 123, 78, 105, 52, 125, 170, 48, 233, 168, 47, 79, 118, 142, 129, 188, 60, 101, 238, 200, 76, 159, 43, 124, 194, 168, 225, 188, 70, 17, 153, 59, 148, 24>>],
    [data |-> <<72, 188, 202, 26, 183, 13, 78, 151, 230, 244, 230, 38, 15, 252, 231, 82, 129, 119, 135, 202, 53, 84, 78, 218, 113, 209, 85, 170, 3, 166, 104, 76, 2>>,
     out |-> <<26, 153, 98, 55, 108, 124, 76, 165, 76, 153, 131, 252, 130, 151, 35, 24, 72, 17, 243, 221, 101, 224, 36, 112, 247, 251, 104, 1, 128, 42, 206, 98, 84, 21, 6, 20, 117, 54, 211, 251, 209, 22, 128, 16, 235, 148, 133, 51, 214, 82, 80, 127, 254, 45, 157, 27, 90, 49, 161, 233, 231, 211, 114, 99, 186, 129, 151, 113, 21, 104, 19, 150, 40, 235, 195, 70, 114, 172, 65, 230, 177, 193, 15, 242, 57, 119, 42, 40, 245, 129, 129, 120, 76, 144, 200, 222, 4, 130, 82, 105, 236, 249, 123, 145, 52, 126, 18, 12, 67, 26, 154, 168, 3, 181, 72, 193, 92, 145, 25, 224, 153, 30, 106, 108, 183, 219, 200, 84>>],
    [data |-> <<170, 48, 163, 170, 183, 40, 32, 28, 29, 176, 229, 144, 71, 13, 71, 26, 126, 40, 76, 215, 63, 238, 28, 143, 47, 193, 251, 212, 35, 218, 158, 246, 0>>,
     out |-> <<214, 86, 51, 177, 49, 246, 101, 96, 41, 179, 194, 46, 212, 239, 215, 38, 113, 161, 83, 8, 178, 103, 22, 210, 108, 79, 99, 7, 59, 145, 65, 148, 209, 250, 183, 47, 218, 74, 32, 140, 47, 8, 30, 177, 177, 187, 206, 216, 41, 135, 115, 101, 210, 172, 3, 195, 211, 199, 136, 167, 83, 66, 57, 223, 193, 131, 75, 246, 89, 194, 236, 13, 122, 110, 180, 39, 75, 78, 39, 150, 253, 192, 165, 20, 190, 83, 244, 215, 11, 188, 16, 206, 129, 122, 143, 110, 39, 235, 192, 186, 29, 20, 181, 38, 16, 88, 62, 91, 163, 186, 156, 219, 154, 69, 169, 114, 62, 25, 114, 14, 213, 176, 86, 228, 165, 221, 35, 222>>],
    [data |-> <<170, 48, 163, 170, 183, 40, 32, 28, 29, 176, 229, 144, 71, 13, 71, 26, 126, 40, 76, 215, 63, 238, 28, 143, 47, 193, 251, 212, 35, 218, 158, 246, 1>>,
     out |-> <<154, 217, 23, 188, 64, 60, 19, 84, 175, 18, 73, 224, 83, 41, 91, 186, 14, 128, 77, 227, 109, 136, 113, 225, 14, 145, 176, 197, 30, 95, 38, 63, 30, 11, 14, 149, 251, 206, 139, 133, 44, 196, 82, 200, 1, 208, 151, 185, 161, 70, 247, 38, 221, 176, 124, 64, 91, 229, 211, 226, 59, 253, 236, 237, 1, 226, 102, 90, 152, 136, 163, 127, 135, 58, 15, 193, 82, 17, 80, 209, 75, 15, 145, 11, 48, 89, 106, 27, 217, 239, 141, 209, 230, 250, 132, 85, 39, 92, 239, 183, 121, 99, 214, 40, 188, 100, 159, 99, 204, 75, 216, 60, 77, 232, 147, 168, 17, 121, 51, 5, 108, 15, 180, 199, 181, 45, 137, 32>>],
    [data |-> <<170, 48, 163, 170, 183, 40, 32, 28, 29, 176, 229, 144, 71, 13, 71, 26, 126, 40, 76, 215, 63, 238, 28, 143, 47, 193, 251, 212, 35, 218, 158, 246, 2>>,
     out |-> <<136, 61, 78, 162, 63, 120, 20, 253, 226, 186, 108, 55, 44, 125, 58, 59, 135, 139, 132, 206, 78, 220, 162, 81, 44, 14, 136, 105, 5, 11, 199, 87, 246, 240, 113, 129, 0, 150, 156, 196, 0, 245, 227, 82, 101, 190, 208, 243, 2, 211, 110, 165, 95, 32, 98, 55, 8, 114, 124, 63, 39, 3, 96, 165, 182, 109, 152, 137, 240, 226, 255, 25, 70, 15, 50, 236, 125, 196, 99, 180, 100, 143, 0, 111, 25, 6, 52, 139, 233, 244, 183, 38, 227, 238, 211, 120, 192, 172, 37, 51, 246, 161, 12, 165, 92, 167, 129, 92, 175, 70, 202, 169, 153, 122, 128, 173, 193, 72, 5, 132, 227, 172, 131, 166, 153, 215, 254, 242>>],
    [data |-> <<132, 102, 48, 71, 81, 27, 17, 240, 91, 64, 37, 59, 19, 142, 125, 42, 60, 174, 131, 217, 194, 74, 234, 20, 48, 9, 43, 145, 198, 51, 35, 241, 0>>,
     out |-> <<157, 10, 184, 73, 209, 107, 169, 94, 40, 33, 26, 27, 127, 114, 226, 102, 10, 229, 88, 136, 17, 109, 138, 231, 32, 61, 111, 141, 63, 56, 231, 232, 6, 149, 145, 140, 104, 145, 68, 16, 169, 44, 43, 106, 71, 218, 29, 252, 245, 150, 71, 201, 49, 120, 94, 238, 65, 99, 53, 255, 208, 132, 121, 85, 219, 48, 10, 233, 166, 233, 21, 230, 86, 73, 255, 69, 183, 4, 162, 198, 90, 152, 220, 115, 249, 18, 3, 78, 238, 129, 30, 234, 113, 146, 85, 2, 182, 183, 19, 227, 245, 105, 19, 150, 60, 125, 100, 55, 157, 135, 110, 124, 133, 158, 91, 145, 206, 164, 20, 104, 123, 95, 230, 191, 123, 61, 100, 127>>],
    [data |-> <<132, 102, 48, 71, 81, 27, 17, 240, 91, 64, 37, 59, 19, 142, 125, 42, 60, 174, 131, 217, 194, 74, 234, 20, 48, 9, 43, 145, 198, 51, 35, 241, 1>>,
     out |-> <<180, 166, 225, 243, 170, 145, 115, 17, 44, 209, 245, 118, 73, 249, 72, 175, 244, 186, 53, 125, 237, 20, 215, 183, 135, 43, 221, 100, 215, 180, 212, 195, 31, 193, 88, 109, 62, 43, 214, 190, 44, 192, 218, 169, 193, 151, 7, 73, 244, 158, 246, 2, 178, 128, 153, 86, 112, 88, 159, 64, 237, 27, 208, 145, 163, 137, 196, 174, 61, 93, 71, 81, 16, 117, 41, 39, 104, 147, 36, 100, 143, 158, 8, 111, 138, 233, 1, 222, 19, 224, 145, 44, 77, 156, 150, 236, 47, 50, 89, 195, 189, 207, 190, 78, 157, 157, 118, 112, 178, 180, 20, 154, 174, 233, 188, 156, 20, 189, 22, 202, 211, 85, 75, 231, 67, 24, 166, 22>>],
    [data |-> <<132, 102, 48, 71, 81, 27, 17, 240, 91, 64, 37, 59, 19, 142, 125, 42, 60, 174, 131, 217, 194, 74, 234, 20, 48, 9, 43, 145, 198, 51, 35, 241, 2>>,
     out |-> <<22, 133, 139, 155, 42, 193, 8, 4, 180, 27, 11, 193, 248, 5, 71, 183, 121, 65, 28, 109, 126, 144, 7, 52, 30, 131, 97, 211, 192, 180, 2, 205, 129, 18, 234, 208, 138, 253, 140, 249, 227, 162, 56, 0, 119, 61, 56, 221, 82, 216, 16, 129, 130, 232, 118, 97, 176, 127, 63, 246, 87, 75, 249, 3, 240, 210, 206, 42, 44, 167, 98, 132, 213, 93, 57, 43, 92, 251, 215, 51, 68, 225, 18, 232, 1, 107, 205, 113, 67, 222, 161, 70, 229, 225, 16, 253, 41, 40, 136, 189, 184, 80, 137, 124, 117, 5, 145, 146, 76, 5, 66, 166, 170, 156, 43, 235, 236, 191, 9, 23, 34, 239, 131, 147, 89, 31, 7, 64>>],
    [data |-> <<84, 34, 137, 131, 141, 116, 65, 4, 248, 135, 191, 181, 119, 33, 159, 99, 61, 205, 118, 171, 115, 168, 118, 229, 245, 101, 235, 17, 170, 4, 19, 145, 0>>,
     out |-> <<113, 243, 232, 216, 45, 8, 157, 71, 68, 211, 241, 218, 215, 136, 236, 222, 49, 154, 71, 13, 93, 27, 233, 146, 93, 70, 200, 243, 207, 32, 91, 31, 140, 130, 169, 101, 56, 5, 73, 56, 156, 130, 88, 247, 160, 181, 104, 158, 7, 155, 39, 117, 80, 95, 40, 252, 60, 13, 219, 79, 190, 147, 200, 224, 111, 255, 47, 235, 217, 21, 3, 225, 3, 185, 43, 230, 139, 58, 240, 9, 239, 152, 218, 176, 11, 103, 102, 231, 125, 131, 182, 225, 82, 220, 209, 248, 213, 199, 209, 74, 63, 140, 158, 76, 131, 61, 155, 228, 26, 42, 99, 221, 215, 40, 9, 86, 196, 108, 37, 39, 85, 30, 65, 11, 111, 145, 215, 41>>],
    [data |-> <<84, 34, 137, 131, 141, 116, 65, 4, 248, 135, 191, 181, 119, 33, 159, 99, 61, 205, 118, 171, 115, 168, 118, 229, 245, 101, 235, 17, 170, 4, 19, 145, 1>>,
     out |-> <<66, 247, 220, 15, 248, 177, 204, 139, 19, 82, 236, 52, 157, 81, 225, 83, 166, 94, 90, 171, 162, 138, 215, 238, 64, 110, 96, 250, 100, 230, 27, 156, 215, 47, 8, 3, 248, 99, 92, 27, 103, 39, 1, 255, 1, 224, 179, 78, 85, 236, 156, 31, 219, 120, 127, 117, 75, 149, 166, 70, 6, 48, 71, 17, 252, 210, 19, 202, 184, 146, 226, 50, 135, 64, 50, 248, 104, 192, 89, 173, 239, 236, 146, 5, 61, 242, 169, 184, 199, 10, 147, 201, 215, 234, 98, 24, 132, 242, 132, 84, 173, 252, 96, 4, 249, 78, 208, 164, 234, 234, 221, 138, 99, 176, 120, 241, 91, 53, 156, 216, 22, 218, 205, 215, 204, 138, 13, 179>>],
    [data |-> <<84, 34, 137, 131, 141, 116, 65, 4, 248, 135, 191, 181, 119, 33, 159, 99, 61, 205, 118, 171, 115, 168, 118, 229, 245, 101, 235, 17, 170, 4, 19, 145, 2>>,
     out |-> <<44, 86, 112, 154, 206, 98, 22, 149, 136, 37, 244, 73, 254, 148, 49, 98, 25, 162, 193, 208, 150, 222, 33, 139, 224, 206, 148, 209, 14, 116, 2, 8, 216, 206, 202, 57, 150, 116, 101, 140, 229, 112, 171, 21, 42, 242, 190, 18, 203, 207, 11, 83, 178, 90, 10, 209, 137, 49, 115, 132, 170, 164, 252, 223, 111, 181, 211, 128, 82, 102, 77, 232, 70, 246, 118, 1, 92, 155, 136, 53, 62, 95, 223, 230, 133, 197, 109, 60, 168, 244, 113, 59, 135, 13, 72, 115, 188, 175, 12, 116, 210, 55, 76, 42, 4, 82, 164, 219, 181, 205, 26, 138, 229, 13, 225, 19, 119, 39, 199, 186, 121, 90, 60, 58, 4, 38, 255, 44>>],
    [data |-> <<62, 243, 185, 56, 46, 100, 168, 145, 216, 4, 218, 227, 203, 9, 147, 114, 19, 140, 234, 1, 12, 201, 143, 190, 227, 49, 135, 135, 210, 75, 120, 150, 0>>,
     out |-> <<154, 206, 145, 74, 199, 191, 66, 45, 211, 93, 104, 33, 118, 112, 234, 89, 177, 247, 111, 218, 116, 50, 121, 9, 19, 137, 180, 203, 153, 59, 214, 144, 200, 80, 110, 250, 183, 208, 39, 33, 158, 9, 69, 170, 16, 164, 197, 178, 130, 4, 3, 77, 76, 248, 120, 238, 102, 69, 111, 101, 106, 111, 255, 93, 60, 205, 69, 61, 187, 255, 43, 94, 169, 16, 229, 32, 178, 179, 119, 252, 78, 244, 144, 120, 10, 26, 57, 113, 231, 6, 23, 203, 76, 231, 147, 175, 92, 172, 22, 19, 71, 109, 40, 14, 139, 11, 255, 131, 58, 86, 45, 36, 244, 33, 121, 118, 3, 72, 166, 249, 217, 84, 242, 126, 186, 132, 254, 209>>],
    [data |-> <<62, 243, 185, 56, 46, 100, 168, 145, 216, 4, 218, 227, 203, 9, 147, 114, 19, 140, 234, 1, 12, 201, 143, 190, 227, 49, 135, 135, 210, 75, 120, 150, 1>>,
     out |-> <<195, 80, 64, 140, 169, 148, 77, 160, 170, 236, 42, 185, 178, 165, 242, 126, 156, 67, 36, 129, 167, 8, 112, 120, 170, 152, 59, 22, 88, 182, 227, 171, 172, 195, 165, 219, 202, 2, 250, 56, 5, 207, 246, 18, 59, 25, 198, 72, 30, 163, 145, 109, 142, 134, 97, 214, 210, 79, 213, 52, 116, 80, 107, 166, 149, 160, 222, 142, 47, 75, 180, 190, 177, 7, 30, 231, 202, 220, 51, 147, 116, 135, 230, 191, 46, 119, 76, 167, 30, 20, 218, 236, 112, 52, 95, 179, 135, 169, 167, 239, 143, 59, 221, 42, 198, 30, 188, 151, 175, 40, 91, 208, 91, 12, 53, 199, 217, 189, 51, 205, 194, 9, 83, 89, 113, 115, 166, 114>>],
    [data |-> <<62, 243, 185, 56, 46, 100, 168, 145, 216, 4, 218, 227, 203, 9, 147, 114, 19, 140, 234, 1, 12, 201, 143, 190, 227, 49, 135, 135, 210, 75, 120, 150, 2>>,
     out |-> <<233, 228, 237, 71, 104, 38, 42, 137, 232, 122, 249, 186, 67, 125, 94, 225, 37, 197, 42, 127, 49, 228, 92, 143, 247, 79, 185, 145, 185, 210, 17, 115, 232, 53, 206, 30, 151, 163, 86, 115, 184, 102, 104, 203, 181, 128, 202, 49, 32, 194, 133, 112, 152, 241, 190, 2, 145, 213, 185, 233, 172, 65, 52, 105, 141, 58, 172, 244, 19, 78, 93, 190, 108, 158, 41, 4, 235, 107, 34, 126, 71, 100, 215, 101, 212, 10, 50, 196, 234, 216, 28, 130, 29, 118, 128, 55, 169, 191, 26, 148, 30, 164, 192, 47, 108, 72, 171, 128, 214, 48, 168, 75, 103, 44, 238, 93, 86, 14, 55, 6, 83, 87, 228, 23, 23, 235, 87, 196>>],
    [data |-> <<77, 243, 245, 59, 249, 89, 49, 96, 38, 141, 235, 192, 28, 183, 147, 182, 9, 114, 160, 192, 95, 1, 176, 150, 200, 103, 188, 165, 141, 79, 51, 174, 0>>,
     out |-> <<3, 34, 236, 212, 115, 233, 161, 171, 149, 210, 163, 73, 104, 78, 80, 203, 175, 157, 229, 162, 121, 92, 247, 58, 253, 181, 232, 58, 138, 239, 216, 100, 246, 237, 95, 66, 156, 108, 27, 103, 155, 27, 255, 106, 52, 15, 123, 89, 48, 235, 105, 127, 220, 217, 170, 8, 165, 117, 184, 141, 53, 12, 203, 53, 231, 25, 157, 37, 23, 54, 233, 148, 225, 114, 56, 59, 63, 159, 53, 138, 129, 224, 244, 140, 130, 187, 52, 245, 131, 244, 46, 45, 2, 50, 249, 229, 165, 82, 96, 132, 2, 95, 110, 146, 127, 120, 228, 200, 23, 198, 3, 172, 101, 238, 116, 68, 157, 237, 70, 70, 101, 62, 159, 63, 117, 248, 145, 11>>],
    [data |-> <<77, 243, 245, 59, 249, 89, 49, 96, 38, 141, 235, 192, 28, 183, 147, 182, 9, 114, 160, 192, 95, 1, 176, 150, 200, 103, 188, 165, 141, 79, 51, 174, 1>>,
     out |-> <<208, 230, 249, 120, 238, 49, 174, 93, 96, 224, 91, 11, 99, 208, 50, 115, 218, 103, 99, 41, 79, 49, 84, 196, 151, 21, 230, 105, 214, 67, 135, 41, 191, 207, 56, 244, 87, 28, 214, 163, 162, 188, 79, 156, 109, 63, 121, 138, 203, 56, 96, 251, 137, 25, 195, 244, 2, 147, 224, 234, 128, 228, 4, 217, 163, 94, 91, 226, 200, 29, 61, 46, 81, 228, 79, 179, 139, 103, 255, 98, 112, 98, 60, 203, 118, 123, 71, 75, 31, 150, 65, 77, 218, 22, 73, 33, 232, 42, 84, 147, 37, 77, 92, 153, 61, 123, 155, 30, 169, 41, 66, 15, 237, 31, 7, 214, 245, 161, 128, 176, 116, 163, 201, 11, 41, 51, 161, 120>>],
    [data |-> <<77, 243, 245, 59, 249, 89, 49, 96, 38, 141, 235, 192, 28, 183, 147, 182, 9, 114, 160, 192, 95, 1, 176, 150, 200, 103, 188, 165, 141, 79, 51, 174, 2>>,
     out |-> <<204, 202, 46, 15, 231, 233, 222, 174, 8, 161, 62, 172, 254, 4, 174, 217, 11, 228, 8, 44, 165, 141, 34, 243, 193, 142, 219, 248, 208, 27, 245, 74, 90, 87, 162, 84, 125, 80, 53, 18, 247, 18, 147, 204, 38, 63, 111, 113, 185, 58, 98, 119, 142, 237, 152, 109, 95, 143, 27, 151, 220, 196, 181, 155, 85, 122, 191, 56, 238, 144, 5, 27, 154, 241, 239, 160, 26, 227, 164, 79, 2, 28, 59, 13, 146, 44, 197, 27, 160, 204, 31, 67, 214, 46, 108, 249, 224, 248, 228, 86, 160, 251, 163, 15, 44, 71, 75, 252, 235, 39, 181, 249, 162, 43, 30, 14, 181, 97, 79, 41, 51, 24, 204, 17, 172, 83, 136, 141>>],
    [data |-> <<160, 121, 186, 215, 13, 13, 194, 89, 143, 88, 235, 129, 227, 65, 231, 100, 227, 132, 160, 176, 86, 230, 230, 238, 69, 174, 80, 119, 238, 196, 18, 192, 0>>,
     out |-> <<198, 67, 159, 84, 56, 248, 119, 75, 136, 191, 233, 202, 241, 113, 25, 103, 52, 165, 248, 118, 188, 250, 203, 195, 206, 145, 236, 138, 158, 171, 60, 209, 48, 154, 220, 185, 71, 215, 233, 101, 233, 106, 139, 219, 45, 148, 115, 67, 250, 114, 162, 163, 41, 66, 68, 44, 4, 222, 183, 175, 196, 167, 23, 59, 204, 170, 87, 183, 215, 231, 207, 100, 235, 250, 70, 248, 238, 221, 145, 184, 80, 194, 141, 250, 144, 112, 35, 204, 218, 65, 96, 148, 183, 10, 241, 26, 95, 152, 87, 244, 92, 30, 136, 219, 208, 167, 96, 190, 142, 28, 177, 199, 217, 6, 198, 142, 11, 241, 1, 219, 44, 89, 40, 131, 71, 41, 23, 106>>],
    [data |-> <<160, 121, 186, 215, 13, 13, 194, 89, 143, 88, 235, 129, 227, 65, 231, 100, 227, 132, 160, 176, 86, 230, 230, 238, 69, 174, 80, 119, 238, 196, 18, 192, 1>>,
     out |-> <<255, 129, 196, 15, 136, 146, 255, 76, 79, 151, 43, 95, 121, 154, 121, 174, 15, 105, 154, 40, 75, 22, 21, 49, 19, 155, 102, 227, 110, 212, 220, 167, 123, 152, 155, 251, 22, 249, 169, 156, 24, 89, 93, 79, 118, 96, 147, 122, 143, 6, 65, 213, 127, 111, 198, 248, 8, 243, 161, 209, 101, 209, 114, 203, 88, 102, 225, 58, 185, 229, 45, 94, 210, 36, 68, 137, 40, 156, 124, 94, 126, 170, 67, 168, 182, 242, 101, 217, 183, 48, 78, 55, 83, 43, 158, 190, 243, 154, 96, 90, 177, 102, 225, 225, 145, 170, 223, 0, 204, 190, 199, 243, 22, 226, 110, 137, 119, 146, 244, 85, 17, 155, 249, 124, 11, 33, 242, 29>>],
    [data |-> <<160, 121, 186, 215, 13, 13, 194, 89, 143, 88, 235, 129, 227, 65, 231, 100, 227, 132, 160, 176, 86, 230, 230, 238, 69, 174, 80, 119, 238, 196, 18, 192, 2>>,
     out |-> <<95, 24, 56, 65, 107, 176, 105, 197, 200, 64, 52, 48, 71, 123, 252, 191, 186, 248, 183, 101, 74, 98, 254, 127, 154, 138, 166, 100, 32, 210, 127, 71, 232, 150, 194, 112, 128, 205, 74, 156, 128, 42, 141, 178, 254, 25, 110, 209, 22, 166, 126, 6, 1, 156, 197, 27, 106, 188, 37, 10, 132, 176, 148, 50, 101, 170, 40, 29, 33, 162, 100, 127, 64, 107, 249, 233, 120, 115, 156, 105, 16, 12, 154, 253, 99, 111, 205, 178, 105, 19, 196, 1, 77, 130, 225, 104, 108, 68, 134, 31, 74, 111, 202, 207, 124, 31, 108, 106, 152, 228, 209, 117, 212, 180, 197, 217, 225, 217, 135, 48, 32, 134, 177, 180, 163, 122, 89, 59>>],
    [data |-> <<91, 184, 12, 130, 132, 116, 1, 8, 77, 85, 87, 76, 185, 3, 108, 100, 44, 41, 200, 239, 58, 203, 122, 154, 122, 15, 105, 200, 15, 96, 153, 197, 0>>,
     out |-> <<206, 253, 209, 54, 171, 182, 164, 27, 95, 66, 195, 136, 232, 115, 242, 60, 210, 30, 156, 29, 4, 123, 226, 78, 78, 247, 223, 159, 103, 20, 46, 243, 149, 200, 170, 69, 43, 177, 187, 124, 111, 210, 251, 12, 42, 189, 190, 121, 28, 99, 176, 179, 41, 94, 46, 81, 214, 99, 68, 171, 173, 176, 161, 159, 239, 57, 214, 211, 237, 119, 128, 95, 2, 107, 221, 249, 104, 113, 96, 6, 211, 41, 143, 7, 8, 43, 28, 93, 107, 199, 76, 145, 161, 4, 99, 230, 130, 177, 239, 69, 215, 152, 212, 50, 150, 237, 65, 29, 124, 120, 115, 159, 192, 196, 247, 112, 208, 72, 135, 154, 169, 213, 2, 193, 40, 204, 231, 106>>],
    [data |-> <<91, 184, 12, 130, 132, 116, 1, 8, 77, 85, 87, 76, 185, 3, 108, 100, 44, 41, 200, 239, 58, 203, 122, 154, 122, 15, 105, 200, 15, 96, 153, 197, 1>>,
     out |-> <<49, 100, 118, 122, 248, 198, 153, 106, 182, 161, 188, 175, 23, 140, 30, 236, 47, 175, 140, 255, 12, 230, 244, 86, 186, 235, 76, 110, 185, 83, 137, 123, 200, 59, 171, 193, 145, 236, 39, 112, 61, 112, 221, 150, 84, 9, 65, 131, 149, 99, 76, 111, 196, 145, 30, 64, 249, 113, 183, 141, 189, 175, 178, 81, 249, 23, 152, 232, 72, 188, 164, 89, 157, 35, 48, 210, 192, 66, 241, 188, 219, 142, 248, 107, 125, 163, 36, 143, 34, 25, 38, 74, 241, 126, 93, 215, 108, 146, 136, 217, 115, 180, 104, 35, 185, 206, 62, 167, 185, 138, 71, 51, 92, 32, 111, 206, 145, 75, 15, 33, 11, 37, 69, 75, 29, 141, 36, 125>>],
    [data |-> <<91, 184, 12, 130, 132, 116, 1, 8, 77, 85, 87, 76, 185, 3, 108, 100, 44, 41, 200, 239, 58, 203, 122, 154, 122, 15, 105, 200, 15, 96, 153, 197, 2>>,
     out |-> <<188, 182, 130, 59, 73, 243, 145, 201, 246, 121, 61, 118, 40, 104, 60, 154, 168, 97, 96, 115, 11, 84, 104, 234, 185, 19, 185, 205, 69, 169, 169, 224, 148, 142, 215, 221, 25, 150, 16, 88, 190, 238, 181, 62, 174, 195, 94, 188, 81, 182, 76, 60, 217, 233, 57, 51, 170, 224, 117, 41, 25, 232, 94, 131, 185, 224, 43, 189, 77, 248, 13, 47, 169, 32, 26, 98, 165, 138, 225, 202, 0, 154, 6, 77, 185, 104, 28, 240, 102, 156, 44, 215, 147, 72, 48, 244, 82, 36, 222, 172, 73, 186, 157, 21, 100, 54, 137, 30, 33, 189, 37, 156, 241, 35, 58, 85, 205, 184, 130, 176, 252, 230, 59, 139, 121, 247, 117, 33>>],
    [data |-> <<52, 251, 251, 206, 61, 72, 78, 148, 72, 33, 100, 187, 54, 23, 12, 206, 109, 129, 41, 78, 176, 15, 217, 227, 107, 187, 212, 59, 103, 56, 185, 1, 0>>,
     out |-> <<210, 48, 154, 221, 146, 41, 54, 79, 11, 224, 91, 203, 50, 175, 27, 177, 191, 64, 106, 197, 177, 57, 147, 208, 123, 65, 66, 154, 227, 238, 254, 239, 180, 180, 37, 111, 89, 146, 167, 160, 225, 121, 7, 112, 160, 163, 71, 205, 39, 117, 161, 74, 217, 61, 32, 165, 38, 194, 242, 40, 67, 24, 69, 114, 255, 232, 60, 129, 96, 85, 40, 104, 53, 95, 54, 180, 176, 59, 51, 70, 37, 13, 37, 3, 235, 229, 117, 172, 58, 30, 170, 91, 153, 65, 84, 107, 232, 34, 180, 90, 121, 48, 63, 187, 146, 207, 158, 61, 204, 95, 200, 51, 3, 154, 74, 18, 113, 32, 236, 28, 93, 75, 55, 120, 79, 58, 105, 212>>],
    [data |-> <<52, 251, 251, 206, 61, 72, 78, 148, 72, 33, 100, 187, 54, 23, 12, 206, 109, 129, 41, 78, 176, 15, 217, 227, 107, 187, 212, 59, 103, 56, 185, 1, 1>>,
     out |-> <<89, 47, 120, 225, 151, 85, 19, 162, 137, 46, 107, 167, 80, 143, 100, 8, 79, 161, 6, 52, 135, 190, 9, 172, 198, 127, 247, 159, 52, 13, 241, 96, 4, 117, 132, 79, 227, 195, 240, 102, 172, 51, 150, 162, 12, 5, 12, 239, 52, 178, 225, 251, 198, 19, 231, 22, 166, 155, 113, 122, 199, 15, 143, 78, 4, 8, 81, 116, 199, 145, 2, 220, 4, 175, 231, 235, 88, 151, 228, 193, 164, 244, 177, 101, 120, 167, 73, 150, 59, 126, 206, 248, 234, 220, 14, 63, 78, 228, 114, 20, 229, 49, 159, 112, 135, 16, 137, 108, 165, 183, 186, 162, 25, 37, 174, 199, 35, 14, 104, 175, 245, 192, 53, 115, 246, 77, 234, 51>>],
    [data |-> <<52, 251, 251, 206, 61, 72, 78, 148, 72, 33, 100, 187, 54, 23, 12, 206, 109, 129, 41, 78, 176, 15, 217, 227, 107, 187, 212, 59, 103, 56, 185, 1, 2>>,
     out |-> <<96, 167, 243, 59, 73, 56, 195, 110, 248, 77, 200, 193, 64, 205, 239, 217, 185, 84, 123, 167, 206, 51, 25, 176, 225, 249, 45, 209, 50, 141, 12, 174, 208, 64, 252, 157, 194, 126, 203, 140, 3, 222, 60, 174, 121, 154, 74, 133, 91, 63, 155, 51, 177, 248, 166, 177, 255, 164, 108, 25, 102, 233, 87, 34, 162, 210, 178, 234, 105, 149, 108, 199, 50, 8, 220, 166, 76, 151, 185, 237, 136, 192, 130, 216, 123, 221, 10, 95, 125, 113, 235, 54, 253, 179, 172, 203, 198, 167, 221, 3, 13, 112, 158, 193, 35, 26, 239, 37, 103, 146, 159, 40, 15, 27, 36, 75, 51, 143, 115, 29, 85, 87, 146, 112, 30, 224, 9, 246>>],
    [data |-> <<234, 57, 186, 135, 52, 234, 145, 155, 63, 14, 100, 157, 45, 85, 35, 42, 77, 39, 157, 215, 155, 187, 27, 200, 42, 135, 72, 98, 101, 163, 239, 229, 0>>,
     out |-> <<136, 6, 168, 24, 128, 184, 66, 44, 15, 240, 76, 63, 10, 160, 212, 222, 23, 226, 49, 61, 118, 217, 234, 2, 170, 10, 243, 183, 199, 125, 57, 27, 242, 142, 156, 169, 151, 216, 179, 170, 233, 246, 60, 134, 153, 198, 145, 9, 143, 133, 255, 45, 104, 94, 192, 131, 123, 250, 168, 194, 243, 36, 38, 162, 213, 107, 197, 208, 149, 200, 205, 194, 151, 98, 117, 221, 22, 30, 27, 200, 120, 237, 198, 8, 200, 196, 20, 186, 128, 2, 201, 166, 79, 119, 67, 15, 250, 165, 197, 17, 104, 60, 144, 78, 19, 245, 46, 105, 5, 13, 65, 125, 8, 250, 235, 213, 76, 128, 20, 228, 226, 187, 204, 5, 247, 109, 181, 53>>],
    [data |-> <<234, 57, 186, 135, 52, 234, 145, 155, 63, 14, 100, 157, 45, 85, 35, 42, 77, 39, 157, 215, 155, 187, 27, 200, 42, 135, 72, 98, 101, 163, 239, 229, 1>>,
     out |-> <<157, 159, 177, 164, 207, 229, 27, 138, 234, 78, 55, 56, 166, 201, 229, 33, 154, 19, 139, 187, 85, 2, 8, 111, 133, 247, 17, 88, 186, 206, 45, 6, 5, 207, 93, 187, 50, 217, 49, 141, 240, 15, 82, 118, 29, 154, 179, 254, 37, 173, 119, 178, 22, 97, 70, 43, 214, 3, 132, 207, 24, 19, 6, 183, 149, 32, 211, 21, 148, 62, 61, 201, 43, 126, 180, 152, 253, 15, 160, 119, 175, 32, 85, 219, 19, 74, 142, 153, 226, 208, 76, 202, 100, 249, 87, 99, 5, 181, 9, 122, 103, 247, 138, 179, 25, 84, 28, 149, 72, 34, 162, 14, 5, 246, 34, 101, 124, 242, 193, 254, 95, 115, 122, 228, 192, 27, 125, 78>>],
    [data |-> <<234, 57, 186, 135, 52, 234, 145, 155, 63, 14, 100, 157, 45, 85, 35, 42, 77, 39, 157, 215, 155, 187, 27, 200, 42, 135, 72, 98, 101, 163, 239, 229, 2>>,
     out |-> <<164, 19, 80, 53, 23, 94, 224, 250, 166, 212, 16, 179, 138, 85, 129, 86, 98, 201, 85, 33, 116, 18, 75, 145, 145, 245, 20, 9, 140, 130, 165, 107, 52, 35, 13, 95, 1, 142, 228, 243, 250, 217, 213, 253, 111, 9, 135, 246, 201, 5, 134, 231, 125, 11, 231, 152, 29, 182, 142, 140, 207, 224, 230, 76, 16, 146, 58, 33, 87, 194, 87, 47, 159, 129, 76, 249, 105, 38, 188, 137, 77, 50, 43, 127, 82, 23, 30, 247, 23, 57, 31, 40, 213, 113, 41, 172, 100, 93, 33, 150, 15, 226, 28, 253, 112, 212, 151, 27, 106, 83, 98, 206, 207, 223, 43, 174, 97, 188, 66, 25, 18, 92, 9, 226, 122, 95, 127, 93>>],
    [data |-> <<225, 234, 242, 247, 1, 18, 51, 91, 132, 214, 239, 181, 104, 170, 244, 193, 229, 107, 199, 127, 130, 233, 196, 155, 61, 203, 79, 88, 187, 62, 105, 149, 0>>,
     out |-> <<207, 74, 103, 247, 67, 39, 174, 143, 85, 18, 252, 52, 239, 125, 128, 237, 48, 186, 49, 10, 213, 237, 76, 186, 166, 248, 143, 218, 137, 2, 51, 158, 250, 124, 152, 86, 53, 44, 197, 101, 61, 31, 69, 232, 42, 63, 191, 25, 34, 144, 167, 148, 7, 138, 7, 255, 82, 70, 132, 242, 235, 228, 239, 203, 217, 222, 18, 169, 31, 45, 121, 2, 88, 100, 31, 107, 150, 17, 82, 16, 26, 220, 97, 113, 254, 9, 40, 94, 103, 42, 151, 181, 171, 89, 72, 195, 180, 212, 172, 179, 218, 34, 51, 161, 27, 35, 54, 45, 233, 61, 117, 173, 161, 23, 107, 247, 206, 183, 247, 188, 16, 231, 127, 154, 167, 153, 35, 217>>],
    [data |-> <<225, 234, 242, 247, 1, 18, 51, 91, 132, 214, 239, 181, 104, 170, 244, 193, 229, 107, 199, 127, 130, 233, 196, 155, 61, 203, 79, 88, 187, 62, 105, 149, 1>>,
     out |-> <<20, 173, 24, 54, 77, 197, 111, 213, 172, 76, 109, 170, 137, 19, 138, 186, 199, 203, 109, 56, 104, 204, 171, 216, 122, 200, 192, 245, 162, 122, 58, 218, 190, 76, 168, 103, 140, 56, 41, 149, 98, 248, 141, 171, 59, 152, 28, 199, 131, 16, 19, 105, 106, 72, 110, 97, 222, 116, 182, 29, 194, 69, 101, 30, 185, 215, 142, 195, 149, 209, 61, 70, 229, 84, 160, 70, 91, 132, 92, 63, 70, 25, 133, 157, 193, 17, 230, 155, 35, 163, 172, 233, 72, 255, 16, 181, 134, 166, 37, 148, 116, 91, 116, 71, 72, 63, 126, 213, 237, 189, 29, 250, 35, 170, 228, 177, 232, 230, 152, 198, 93, 224, 11, 35, 1, 174, 237, 158>>],
    [data |-> <<225, 234, 242, 247, 1, 18, 51, 91, 132, 214, 239, 181, 104, 170, 244, 193, 229, 107, 199, 127, 130, 233, 196, 155, 61, 203, 79, 88, 187, 62, 105, 149, 2>>,
     out |-> <<53, 223, 211, 191, 14, 45, 47, 161, 84, 223, 140, 98, 185, 72, 222, 175, 246, 231, 5, 71, 195, 212, 249, 137, 195, 35, 102, 2, 167, 188, 26, 91, 201, 9, 127, 209, 236, 2, 186, 246, 7, 52, 12, 232, 193, 171, 125, 178, 96, 241, 88, 79, 110, 77, 51, 115, 136, 90, 51, 175, 219, 32, 81, 251, 205, 190, 175, 150, 163, 172, 103, 167, 109, 64, 229, 201, 28, 55, 126, 163, 161, 229, 81, 136, 211, 129, 91, 205, 143, 40, 81, 115, 124, 213, 148, 35, 78, 63, 10, 125, 204, 159, 209, 39, 184, 42, 63, 102, 26, 85, 58, 169, 33, 149, 48, 170, 15, 24, 163, 110, 234, 227, 156, 12, 69, 125, 229, 42>>],
    [data |-> <<216, 163, 157, 172, 67, 61, 227, 77, 140, 126, 226, 207, 90, 8, 134, 158, 143, 143, 196, 73, 222, 146, 96, 168, 59, 218, 72, 38, 155, 50, 153, 75, 0>>,
     out |-> <<158, 250, 176, 59, 155, 185, 249, 48, 163, 213, 42, 157, 32, 205, 158, 164, 77, 221, 146, 206, 182, 41, 124, 238, 253, 19, 93, 21, 179, 64, 27, 166, 110, 176, 15, 76, 223, 162, 211, 110, 212, 26, 176, 126, 94, 124, 27, 14, 72, 60, 123, 5, 33, 83, 157, 110, 69, 177, 52, 47, 50, 29, 233, 126, 66, 198, 200, 140, 107, 63, 83, 32, 140, 154, 209, 31, 207, 92, 188, 31, 227, 120, 73, 222, 28, 217, 252, 101, 201, 8, 170, 221, 95, 216, 156, 221, 125, 222, 181, 19, 242, 9, 152, 40, 197, 53, 232, 24, 33, 160, 53, 216, 192, 102, 157, 193, 240, 101, 147, 50, 210, 65, 16, 65, 70, 139, 244, 98>>],
    [data |-> <<216, 163, 157, 172, 67, 61, 227, 77, 140, 126, 226, 207, 90, 8, 134, 158, 143, 143, 196, 73, 222, 146, 96, 168, 59, 218, 72, 38, 155, 50, 153, 75, 1>>,
     out |-> <<97, 97, 84, 252, 168, 204, 164, 131, 36, 22, 105, 215, 121, 3, 66, 76, 31, 241, 230, 14, 219, 145, 8, 130, 210, 109, 132, 185, 217, 122, 12, 214, 191, 202, 249, 241, 186, 223, 89, 199, 107, 204, 214, 157, 98, 232, 134, 66, 107, 56, 8, 219, 176, 52, 218, 128, 85, 93, 199, 74, 151, 137, 98, 153, 209, 195, 72, 37, 77, 168, 9, 133, 122, 132, 44, 69, 237, 25, 196, 193, 153, 83, 33, 130, 152, 210, 125, 93, 76, 110, 69, 203, 128, 70, 182, 174, 105, 23, 143, 202, 49, 142, 250, 12, 55, 168, 123, 186, 24, 7, 29, 247, 206, 252, 183, 240, 14, 183, 3, 185, 170, 130, 17, 87, 44, 233, 185, 179>>],
    [data |-> <<216, 163, 157, 172, 67, 61, 227, 77, 140, 126, 226, 207, 90, 8, 134, 158, 143, 143, 196, 73, 222, 146, 96, 168, 59, 218, 72, 38, 155, 50, 153, 75, 2>>,
     out |-> <<132, 117, 149, 102, 103, 91, 96, 42, 177, 5, 154, 174, 237, 245, 115, 158, 222, 19, 118, 252, 65, 47, 167, 45, 74, 176, 172, 185, 76, 59, 69, 20, 106, 129, 36, 137, 200, 252, 121, 143, 138, 222, 47, 117, 154, 69, 245, 224, 79, 35, 221, 222, 154, 3, 225, 91, 227, 165, 222, 35, 116, 147, 162, 89, 157, 153, 54, 187, 103, 16, 97, 102, 55, 123, 118, 135, 132, 15, 71, 30, 189, 84, 186, 236, 97, 94, 26, 18, 117, 250, 114, 93, 143, 130, 59, 95, 104, 121, 167, 154, 189, 123, 183, 177, 61, 210, 144, 243, 229, 84, 106, 237, 134, 236, 123, 116, 83, 14, 52, 165, 171, 228, 91, 83, 17, 207, 197, 128>>],
    [data |-> <<159, 104, 220, 183, 85, 9, 194, 217, 248, 229, 102, 143, 117, 45, 194, 238, 192, 245, 193, 123, 216, 246, 115, 54, 244, 182, 186, 170, 35, 55, 113, 193, 0>>,
     out |-> <<161, 199, 41, 52, 84, 37, 192, 74, 16, 129, 134, 8, 172, 20, 74, 132, 244, 40, 108, 247, 34, 208, 145, 4, 222, 39, 245, 216, 77, 42, 227, 74, 75, 143, 70, 222, 35, 98, 72, 53, 65, 105, 42, 156, 9, 164, 55, 17, 136, 236, 17, 66, 225, 180, 111, 46, 39, 113, 123, 227, 154, 23, 63, 24, 17, 158, 37, 23, 141, 126, 129, 71, 119, 127, 6, 29, 134, 233, 115, 6, 177, 253, 160, 157, 102, 201, 181, 80, 65, 212, 186, 131, 4, 127, 63, 62, 30, 125, 142, 63, 223, 100, 133, 105, 90, 172, 41, 210, 63, 70, 146, 209, 169, 25, 160, 139, 155, 38, 230, 132, 100, 226, 78, 250, 169, 82, 101, 222>>],
    [data |-> <<159, 104, 220, 183, 85, 9, 194, 217, 248, 229, 102, 143, 117, 45, 194, 238, 192, 245, 193, 123, 216, 246, 115, 54, 244, 182, 186, 170, 35, 55, 113, 193, 1>>,
     out |-> <<62, 196, 35, 226, 53, 19, 39, 12, 172, 109, 246, 60, 124, 185, 216, 217, 158, 182, 75, 39, 2, 235, 226, 8, 255, 101, 190, 104, 245, 209, 166, 28, 14, 210, 14, 132, 109, 193, 212, 166, 6, 252, 245, 174, 212, 189, 197, 98, 49, 70, 206, 189, 165, 47, 232, 0, 48, 32, 66, 177, 230, 235, 98, 178, 39, 5, 209, 26, 244, 134, 114, 10, 179, 145, 192, 5, 74, 150, 103, 106, 116, 103, 167, 66, 217, 142, 111, 247, 49, 137, 45, 94, 91, 98, 25, 226, 63, 100, 232, 192, 202, 235, 90, 223, 196, 67, 242, 193, 249, 89, 114, 142, 168, 90, 4, 120, 103, 3, 214, 233, 67, 146, 218, 104, 16, 93, 226, 239>>],
    [data |-> <<159, 104, 220, 183, 85, 9, 194, 217, 248, 229, 102, 143, 117, 45, 194, 238, 192, 245, 193, 123, 216, 246, 115, 54, 244, 182, 186, 170, 35, 55, 113, 193, 2>>,
     out |-> <<173, 64, 190, 201, 18, 224, 78, 208, 59, 243, 72, 80, 26, 189, 35, 51, 19, 122, 161, 149, 160, 11, 151, 170, 61, 36, 48, 21, 1, 66, 48, 197, 184, 153, 174, 98, 199, 155, 182, 175, 99, 105, 185, 171, 68, 121, 3, 246, 6, 100, 249, 6, 144, 27, 148, 56, 83, 44, 160, 30, 46, 166, 12, 125, 13, 221, 150, 104, 179, 203, 235, 221, 239, 113, 5, 184, 134, 215, 143, 25, 153, 0, 137, 24, 181, 104, 108, 172, 121, 56, 26, 33, 67, 110, 157, 221, 171, 132, 154, 60, 242, 111, 147, 175, 146, 166, 225, 140, 92, 170, 134, 32, 45, 37, 187, 184, 152, 189, 157, 76, 107, 54, 224, 196, 176, 225, 13, 129>>],
    [data |-> <<6, 128, 51, 47, 122, 147, 53, 219, 68, 239, 228, 46, 6, 92, 57, 206, 235, 123, 56, 88, 50, 198, 243, 152, 229, 5, 236, 95, 108, 218, 224, 79, 0>>,
     out |-> <<229, 46, 88, 236, 121, 169, 238, 116, 14, 97, 116, 225, 110, 205, 1, 122, 217, 90, 249, 243, 146, 234, 65, 141, 55, 238, 3, 21, 0, 15, 138, 78, 229, 97, 196, 126, 160, 251, 230, 23, 162, 43, 48, 245, 169, 77, 198, 92, 185, 189, 247, 180, 155, 149, 79, 121, 250, 127, 32, 161, 159, 181, 177, 190, 53, 209, 130, 62, 201, 97, 232, 144, 235, 76, 192, 21, 33, 140, 192, 167, 28, 132, 151, 103, 179, 238, 123, 86, 180, 167, 11, 18, 95, 194, 100, 121, 243, 191, 135, 196, 141, 253, 41, 98, 152, 181, 161, 212, 139, 49, 232, 96, 0, 52, 203, 174, 23, 159, 244, 89, 29, 182, 206, 154, 252, 125, 104, 103>>],
    [data |-> <<6, 128, 51, 47, 122, 147, 53, 219, 68, 239, 228, 46, 6, 92, 57, 206, 235, 123, 56, 88, 50, 198, 243, 152, 229, 5, 236, 95, 108, 218, 224, 79, 1>>,
     out |-> <<191, 177, 135, 116, 213, 197, 117, 221, 193, 38, 75, 219, 76, 9, 78, 146, 143, 188, 134, 123, 103, 227, 86, 187, 124, 165, 209, 33, 254, 119, 16, 240, 51, 161, 42, 183, 201, 90, 226, 98, 27, 175, 246, 120, 147, 150, 68, 15, 254, 192, 249, 212, 79, 146, 84, 121, 223, 47, 118, 32, 90, 176, 12, 39, 169, 6, 150, 32, 150, 168, 210, 132, 94, 106, 158, 77, 52, 114, 13, 116, 171, 141, 67, 69, 50, 60, 88, 107, 173, 152, 109, 199, 46, 85, 106, 51, 84, 168, 87, 19, 31, 36, 111, 0, 131, 165, 215, 204, 255, 69, 220, 210, 221, 76, 46, 171, 105, 221, 169, 9, 69, 120, 29, 181, 239, 71, 16, 254>>],
    [data |-> <<6, 128, 51, 47, 122, 147, 53, 219, 68, 239, 228, 46, 6, 92, 57, 206, 235, 123, 56, 88, 50, 198, 243, 152, 229, 5, 236, 95, 108, 218, 224, 79, 2>>,
     out |-> <<214, 204, 227, 198, 93, 22, 80, 68, 238, 73, 9, 126, 17, 137, 170, 233, 242, 201, 148, 249, 178, 93, 251, 172, 61, 2, 124, 117, 70, 209, 99, 20, 185, 203, 36, 200, 215, 65, 129, 156, 2, 164, 82, 49, 129, 110, 239, 229, 203, 247, 54, 40, 31, 2, 42, 20, 120, 112, 131, 143, 87, 66, 52, 24, 128, 183, 237, 53, 5, 230, 98, 106, 63, 198, 82, 214, 85, 116, 157, 228, 208, 179, 192, 82, 111, 148, 241, 190, 89, 71, 232, 218, 37, 156, 161, 58, 55, 246, 168, 128, 143, 220, 30, 1, 132, 55, 128, 25, 71, 221, 110, 186, 100, 213, 205, 217, 27, 133, 118, 186, 235, 209, 160, 230, 162, 127, 232, 10>>],
    [data |-> <<99, 138, 209, 95, 149, 172, 56, 193, 24, 93, 124, 162, 56, 208, 186, 98, 51, 111, 122, 181, 204, 67, 133, 172, 135, 147, 45, 170, 249, 201, 161, 210, 0>>,
     out |-> <<252, 180, 127, 102, 237, 34, 238, 235, 242, 75, 16, 174, 16, 129, 48, 144, 114, 194, 228, 193, 129, 111, 197, 94, 200, 78, 69, 166, 175, 196, 226, 135, 121, 3, 230, 192, 142, 231, 255, 73, 229, 31, 214, 224, 183, 19, 85, 87, 135, 87, 198, 113, 238, 100, 34, 163, 67, 214, 4, 183, 83, 11, 205, 30, 232, 247, 196, 63, 166, 220, 229, 249, 56, 127, 9, 93, 3, 193, 120, 29, 242, 131, 233, 201, 230, 152, 202, 151, 209, 221, 211, 62, 183, 70, 155, 152, 227, 239, 255, 118, 71, 79, 182, 234, 232, 107, 109, 106, 31, 247, 13, 161, 136, 5, 147, 84, 137, 247, 176, 113, 205, 110, 205, 53, 241, 189, 199, 233>>],
    [data |-> <<99, 138, 209, 95, 149, 172, 56, 193, 24, 93, 124, 162, 56, 208, 186, 98, 51, 111, 122, 181, 204, 67, 133, 172, 135, 147, 45, 170, 249, 201, 161, 210, 1>>,
     out |-> <<52, 144, 200, 251, 160, 37, 69, 146, 20, 201, 133, 37, 249, 137, 10, 25, 225, 57, 200, 143, 94, 53, 156, 240, 122, 2, 97, 1, 154, 42, 41, 28, 88, 173, 3, 248, 28, 197, 129, 223, 209, 68, 9, 16, 15, 104, 77, 130, 78, 146, 204, 136, 212, 51, 56, 204, 148, 35, 217, 136, 237, 104, 148, 3, 107, 48, 124, 34, 59, 178, 77, 60, 187, 158, 144, 176, 15, 171, 181, 28, 238, 40, 78, 27, 180, 242, 158, 59, 81, 168, 147, 207, 135, 20, 33, 12, 30, 1, 167, 163, 5, 86, 128, 3, 19, 110, 146, 225, 14, 111, 196, 169, 69, 189, 10, 64, 57, 206, 26, 42, 128, 194, 0, 162, 35, 77, 1, 34>>],
    [data |-> <<99, 138, 209, 95, 149, 172, 56, 193, 24, 93, 124, 162, 56, 208, 186, 98, 51, 111, 122, 181, 204, 67, 133, 172, 135, 147, 45, 170, 249, 201, 161, 210, 2>>,
     out |-> <<167, 194, 104, 146, 121, 188, 221, 79, 194, 166, 217, 66, 70, 106, 31, 166, 73, 122, 203, 162, 116, 145, 72, 205, 163, 156, 31, 195, 32, 80, 208, 215, 59, 140, 13, 34, 164, 150, 13, 85, 6, 177, 137, 198, 249, 208, 166, 11, 171, 65, 220, 113, 193, 84, 105, 80, 59, 129, 185, 197, 37, 174, 204, 164, 95, 171, 238, 124, 34, 87, 102, 123, 158, 211, 23, 18, 186, 189, 214, 69, 155, 221, 103, 231, 13, 44, 186, 163, 190, 89, 88, 47, 16, 0, 34, 200, 230, 39, 176, 67, 167, 102, 124, 201, 94, 193, 233, 15, 221, 142, 163, 45, 53, 43, 108, 82, 219, 129, 77, 185, 142, 163, 18, 127, 166, 194, 184, 118>>],
    [data |-> <<84, 68, 212, 250, 199, 34, 210, 120, 194, 110, 65, 91, 22, 122, 106, 93, 206, 126, 109, 155, 83, 75, 22, 76, 10, 254, 109, 222, 133, 85, 70, 232, 0>>,
     out |-> <<61, 249, 194, 113, 178, 85, 58, 205, 235, 234, 80, 11, 178, 24, 47, 158, 24, 141, 5, 159, 88, 10, 61, 148, 141, 145, 22, 55, 5, 52, 3, 153, 54, 79, 94, 0, 44, 204, 27, 83, 231, 99, 119, 104, 125, 168, 223, 91, 58, 235, 155, 117, 69, 94, 232, 127, 129, 157, 92, 106, 112, 8, 155, 94, 212, 100, 74, 17, 194, 169, 134, 109, 243, 212, 20, 71, 86, 117, 219, 65, 41, 11, 168, 136, 17, 252, 138, 40, 140, 1, 97, 67, 184, 205, 96, 118, 83, 230, 226, 140, 24, 163, 203, 135, 34, 203, 13, 192, 224, 1, 150, 130, 142, 103, 194, 95, 32, 208, 12, 54, 208, 244, 99, 113, 70, 131, 213, 70>>],
    [data |-> <<84, 68, 212, 250, 199, 34, 210, 120, 194, 110, 65, 91, 22, 122, 106, 93, 206, 126, 109, 155, 83, 75, 22, 76, 10, 254, 109, 222, 133, 85, 70, 232, 1>>,
     out |-> <<15, 32, 228, 168, 79, 149, 81, 6, 0, 16, 169, 135, 118, 224, 92, 172, 226, 175, 96, 70, 178, 111, 227, 50, 75, 2, 150, 252, 202, 150, 174, 169, 109, 49, 207, 243, 159, 185, 94, 254, 64, 110, 76, 189, 211, 123, 254, 240, 162, 20, 110, 124, 174, 102, 169, 171, 61, 21, 102, 46, 169, 180, 15, 225, 156, 135, 183, 41, 34, 174, 132, 55, 198, 76, 71, 131, 55, 79, 109, 52, 13, 228, 32, 2, 167, 16, 18, 107, 202, 63, 133, 32, 243, 172, 233, 131, 188, 170, 9, 108, 41, 58, 9, 66, 160, 46, 199, 44, 33, 149, 33, 193, 11, 146, 66, 145, 69, 106, 111, 176, 245, 124, 205, 196, 175, 195, 144, 140>>],
    [data |-> <<84, 68, 212, 250, 199, 34, 210, 120, 194, 110, 65, 91, 22, 122, 106, 93, 206, 126, 109, 155, 83, 75, 22, 76, 10, 254, 109, 222, 133, 85, 70, 232, 2>>,
     out |-> <<22, 66, 118, 24, 164, 236, 33, 240, 239, 27, 78, 53, 165, 31, 91, 28, 20, 67, 77, 153, 24, 236, 103, 210, 160, 31, 82, 210, 17, 102, 87, 26, 151, 188, 151, 130, 102, 64, 230, 1, 73, 174, 108, 201, 218, 212, 247, 80, 78, 26, 125, 157, 47, 161, 248, 39, 230, 45, 35, 160, 220, 231, 17, 236, 240, 59, 217, 162, 61, 203, 196, 111, 16, 44, 180, 232, 214, 18, 10, 23, 153, 248, 15, 193, 85, 226, 154, 134, 202, 137, 4, 222, 212, 58, 198, 194, 135, 211, 210, 147, 75, 178, 218, 107, 165, 173, 108, 195, 158, 29, 146, 136, 78, 167, 27, 50, 106, 38, 139, 105, 96, 27, 159, 233, 176, 35, 101, 250>>],
    [data |-> <<136, 184, 251, 131, 179, 246, 216, 149, 4, 196, 81, 189, 224, 228, 250, 133, 201, 123, 1, 7, 250, 203, 197, 195, 63, 146, 201, 89, 188, 176, 217, 107, 0>>,
     out |-> <<148, 73, 87, 91, 125, 16, 241, 64, 227, 240, 122, 57, 147, 230, 242, 95, 120, 142, 41, 238, 14, 16, 13, 149, 116, 191, 94, 82, 201, 43, 19, 180, 108, 63, 157, 189, 112, 169, 152, 6, 13, 179, 97, 58, 164, 223, 216, 54, 127, 138, 147, 237, 112, 53, 233, 104, 225, 117, 35, 74, 17, 8, 159, 37, 171, 166, 105, 180, 3, 178, 42, 161, 180, 82, 25, 255, 254, 221, 83, 0, 130, 179, 3, 220, 128, 243, 63, 6, 103, 248, 102, 160, 220, 118, 16, 202, 95, 174, 93, 172, 235, 124, 118, 56, 118, 64, 55, 119, 185, 55, 26, 236, 1, 247, 218, 117, 89, 138, 150, 96, 225, 71, 158, 87, 15, 169, 19, 47>>],
    [data |-> <<136, 184, 251, 131, 179, 246, 216, 149, 4, 196, 81, 189, 224, 228, 250, 133, 201, 123, 1, 7, 250, 203, 197, 195, 63, 146, 201, 89, 188, 176, 217, 107, 1>>,
     out |-> <<58, 141, 221, 221, 31, 35, 158, 206, 226, 245, 195, 16, 64, 145, 106, 105, 243, 176, 189, 186, 109, 194, 73, 243, 233, 137, 114, 30, 154, 180, 236, 107, 223, 131, 83, 40, 220, 113, 91, 49, 239, 15, 98, 44, 113, 78, 57, 90, 134, 246, 55, 239, 175, 47, 32, 87, 58, 22, 143, 246, 138, 7, 107, 64, 76, 163, 94, 237, 167, 240, 126, 179, 191, 100, 226, 216, 150, 160, 0, 156, 184, 191, 236, 124, 161, 205, 59, 24, 4, 158, 92, 241, 130, 176, 5, 243, 155, 85, 51, 205, 25, 105, 83, 205, 229, 197, 175, 18, 192, 74, 41, 210, 218, 46, 229, 180, 20, 216, 37, 230, 50, 135, 225, 41, 35, 237, 147, 249>>],
    [data |-> <<136, 184, 251, 131, 179, 246, 216, 149, 4, 196, 81, 189, 224, 228, 250, 133, 201, 123, 1, 7, 250, 203, 197, 195, 63, 146, 201, 89, 188, 176, 217, 107, 2>>,
     out |-> <<63, 43, 171, 206, 154, 59, 227, 38, 91, 211, 216, 74, 139, 29, 30, 214, 251, 219, 19, 94, 113, 190, 84, 110, 5, 37, 2, 136, 211, 126, 162, 51, 95, 14, 246, 197, 46, 59, 183, 80, 64, 135, 52, 118, 86, 110, 125, 195, 192, 136, 60, 189, 77, 140, 156, 247, 135, 148, 197, 38, 118, 126, 77, 101, 24, 65, 138, 160, 208, 69, 243, 31, 91, 47, 191, 19, 238, 189, 150, 96, 142, 147, 9, 67, 72, 232, 213, 110, 245, 50, 22, 236, 167, 99, 132, 112, 17, 125, 200, 75, 221, 100, 205, 131, 83, 70, 161, 95, 220, 7, 53, 216, 37, 167, 15, 27, 230, 52, 217, 21, 94, 184, 72, 99, 119, 48, 180, 250>>],
    [data |-> <<52, 141, 228, 200, 32, 109, 217, 178, 131, 164, 32, 76, 30, 202, 93, 45, 87, 78, 233, 99, 243, 197, 121, 106, 156, 205, 189, 27, 55, 139, 250, 231, 0>>,
     out |-> <<30, 113, 198, 175, 58, 149, 18, 78, 212, 104, 134, 63, 46, 174, 161, 165, 228, 18, 16, 254, 29, 70, 78, 166, 123, 18, 51, 183, 167, 135, 205, 138, 203, 146, 109, 74, 113, 183, 43, 116, 75, 118, 204, 86, 219, 122, 64, 36, 139, 1, 140, 118, 130, 156, 255, 186, 182, 0, 237, 210, 181, 235, 80, 8, 59, 107, 233, 114, 5, 28, 157, 67, 78, 255, 100, 51, 70, 13, 3, 48, 179, 29, 152, 233, 47, 89, 38, 103, 74, 229, 118, 73, 94, 193, 28, 105, 165, 163, 132, 197, 111, 213, 220, 214, 217, 234, 230, 116, 144, 113, 8, 75, 138, 248, 181, 0, 190, 229, 179, 88, 38, 103, 97, 30, 176, 229, 68, 45>>],
    [data |-> <<52, 141, 228, 200, 32, 109, 217, 178, 131, 164, 32, 76, 30, 202, 93, 45, 87, 78, 233, 99, 243, 197, 121, 106, 156, 205, 189, 27, 55, 139, 250, 231, 1>>,
     out |-> <<175, 95, 93, 67, 103, 163, 248, 124, 81, 148, 227, 171, 235, 27, 195, 34, 199, 200, 46, 233, 96, 206, 177, 8, 202, 153, 33, 18, 128, 155, 196, 40, 47, 17, 214, 48, 211, 111, 246, 23, 223, 110, 46, 159, 133, 224, 246, 192, 142, 175, 140, 162, 179, 4, 35, 88, 120, 28, 135, 19, 65, 28, 250, 85, 181, 120, 229, 99, 195, 115, 125, 179, 108, 41, 38, 198, 60, 136, 180, 173, 26, 41, 43, 238, 192, 191, 163, 103, 244, 47, 115, 221, 193, 80, 4, 248, 224, 151, 177, 254, 208, 111, 66, 61, 117, 51, 61, 221, 12, 246, 131, 115, 20, 232, 141, 234, 91, 193, 82, 120, 237, 162, 176, 233, 206, 101, 97, 177>>],
    [data |-> <<52, 141, 228, 200, 32, 109, 217, 178, 131, 164, 32, 76, 30, 202, 93, 45, 87, 78, 233, 99, 243, 197, 121, 106, 156, 205, 189, 27, 55, 139, 250, 231, 2>>,
     out |-> <<41, 148, 167, 83, 77, 102, 130, 98, 32, 248, 71, 8, 184, 15, 216, 192, 162, 106, 230, 206, 196, 77, 155, 118, 0, 219, 240, 238, 81, 236, 30, 52, 251, 15, 94, 11, 189, 41, 212, 34, 200, 229, 50, 140, 8, 16, 171, 0, 158, 242, 6, 37, 172, 101, 47, 5, 5, 176, 222, 3, 189, 50, 255, 237, 251, 233, 235, 149, 142, 95, 128, 187, 239, 244, 127, 52, 232, 210, 81, 3, 143, 178, 150, 38, 55, 20, 190, 76, 211, 240, 200, 216, 182, 97, 209, 89, 110, 0, 63, 40, 36, 187, 16, 210, 192, 83, 224, 238, 209, 170, 201, 238, 158, 158, 122, 7, 228, 130, 232, 7, 215, 71, 93, 69, 242, 10, 166, 243>>],
    [data |-> <<45, 245, 53, 229, 90, 100, 229, 73, 1, 217, 181, 21, 164, 123, 71, 196, 61, 88, 49, 173, 58, 51, 117, 207, 249, 58, 141, 202, 14, 18, 173, 61, 0>>,
     out |-> <<154, 191, 237, 244, 44, 193, 171, 245, 249, 212, 102, 170, 72, 149, 130, 93, 164, 4, 153, 121, 76, 137, 156, 184, 98, 68, 142, 22, 190, 1, 20, 87, 123, 234, 91, 233, 62, 101, 14, 93, 149, 88, 117, 204, 71, 170, 246, 152, 186, 11, 44, 6, 162, 152, 170, 118, 79, 50, 186, 191, 252, 9, 95, 229, 215, 185, 36, 31, 34, 228, 124, 197, 114, 17, 176, 7, 85, 178, 177, 252, 187, 94, 162, 200, 74, 110, 12, 102, 247, 61, 122, 46, 121, 28, 47, 162, 127, 32, 93, 119, 135, 121, 156, 111, 61, 70, 227, 212, 15, 251, 49, 163, 176, 41, 170, 31, 194, 161, 94, 82, 255, 77, 213, 88, 224, 242, 243, 180>>],
    [data |-> <<45, 245, 53, 229, 90, 100, 229, 73, 1, 217, 181, 21, 164, 123, 71, 196, 61, 88, 49, 173, 58, 51, 117, 207, 249, 58, 141, 202, 14, 18, 173, 61, 1>>,
     out |-> <<131, 18, 209, 150, 169, 235, 171, 125, 95, 210, 161, 92, 151, 179, 139, 184, 147, 229, 212, 121, 180, 155, 164, 78, 205, 7, 186, 209, 157, 205, 167, 70, 40, 222, 197, 162, 62, 21, 71, 57, 181, 128, 153, 87, 250, 180, 111, 45, 115, 49, 22, 60, 192, 108, 131, 83, 250, 113, 45, 39, 88, 186, 178, 7, 155, 160, 23, 63, 244, 196, 87, 125, 116, 101, 89, 240, 47, 88, 199, 53, 235, 113, 203, 70, 171, 8, 200, 114, 218, 74, 103, 113, 1, 92, 210, 121, 122, 206, 207, 129, 79, 95, 237, 27, 133, 134, 65, 13, 89, 208, 65, 182, 19, 138, 110, 90, 196, 191, 214, 50, 158, 147, 107, 53, 63, 9, 38, 26>>],
    [data |-> <<45, 245, 53, 229, 90, 100, 229, 73, 1, 217, 181, 21, 164, 123, 71, 196, 61, 88, 49, 173, 58, 51, 117, 207, 249, 58, 141, 202, 14, 18, 173, 61, 2>>,
     out |-> <<32, 67, 214, 46, 39, 141, 70, 47, 197, 228, 119, 163, 87, 50, 237, 28, 100, 52, 243, 152, 165, 43, 223, 251, 76, 104, 122, 101, 166, 53, 106, 109, 230, 153, 18, 70, 95, 179, 122, 193, 134, 162, 38, 147, 218, 192, 38, 118, 222, 23, 71, 9, 242, 246, 3, 249, 120, 95, 183, 59, 98, 145, 128, 242, 159, 90, 247, 172, 207, 243, 0, 50, 136, 108, 240, 139, 20, 145, 206, 5, 198, 79, 105, 33, 194, 94, 254, 216, 46, 17, 185, 87, 1, 199, 130, 232, 67, 113, 14, 84, 23, 78, 216, 197, 146, 112, 113, 159, 243, 142, 119, 189, 124, 227, 229, 166, 180, 175, 165, 172, 36, 83, 196, 136, 144, 209, 202, 207>>],
    [data |-> <<233, 246, 13, 168, 126, 235, 87, 180, 95, 16, 115, 118, 126, 151, 170, 225, 213, 247, 130, 216, 226, 28, 18, 48, 41, 160, 81, 109, 38, 28, 162, 105, 0>>,
     out |-> <<105, 28, 232, 140, 117, 75, 62, 251, 150, 88, 18, 51, 16, 208, 181, 225, 75, 35, 141, 225, 24, 40, 160, 243, 23, 153, 140, 236, 131, 117, 196, 247, 157, 190, 111, 220, 254, 226, 104, 104, 39, 125, 106, 180, 212, 137, 97, 113, 174, 114, 49, 103, 149, 23, 78, 34, 128, 156, 186, 0, 131, 144, 139, 223, 231, 171, 226, 141, 0, 24, 221, 95, 19, 128, 215, 198, 191, 185, 172, 244, 239, 61, 197, 212, 196, 236, 172, 133, 229, 202, 205, 162, 141, 38, 2, 244, 96, 207, 202, 224, 194, 144, 179, 169, 157, 153, 136, 60, 235, 97, 25, 247, 82, 94, 73, 250, 219, 230, 48, 140, 147, 50, 46, 183, 105, 152, 206, 166>>],
    [data |-> <<233, 246, 13, 168, 126, 235, 87, 180, 95, 16, 115, 118, 126, 151, 170, 225, 213, 247, 130, 216, 226, 28, 18, 48, 41, 160, 81, 109, 38, 28, 162, 105, 1>>,
     out |-> <<77, 223, 37, 97, 224, 160, 197, 255, 142, 59, 230, 200, 244, 172, 194, 7, 166, 181, 225, 112, 173, 227, 46, 113, 227, 185, 90, 239, 104, 238, 162, 143, 70, 116, 58, 138, 161, 193, 69, 234, 162, 53, 239, 125, 64, 45, 74, 101, 62, 225, 111, 208, 249, 78, 130, 216, 164, 45, 51, 97, 79, 74, 161, 48, 166, 252, 146, 100, 82, 231, 160, 75, 0, 153, 221, 119, 147, 246, 130, 97, 142, 77, 95, 170, 128, 16, 1, 160, 113, 8, 105, 176, 10, 115, 144, 175, 190, 80, 124, 163, 203, 68, 128, 245, 87, 191, 232, 162, 254, 61, 149, 53, 29, 188, 167, 174, 128, 88, 36, 34, 216, 134, 8, 230, 54, 19, 7, 234>>],
    [data |-> <<233, 246, 13, 168, 126, 235, 87, 180, 95, 16, 115, 118, 126, 151, 170, 225, 213, 247, 130, 216, 226, 28, 18, 48, 41, 160, 81, 109, 38, 28, 162, 105, 2>>,
     out |-> <<236, 25, 231, 105, 92, 188, 101, 109, 59, 79, 7, 171, 65, 143, 98, 79, 191, 73, 201, 152, 225, 135, 158, 167, 30, 104, 240, 187, 110, 14, 200, 44, 51, 72, 132, 65, 249, 178, 120, 245, 30, 72, 21, 43, 67, 246, 247, 237, 1, 46, 54, 159, 37, 131, 218, 220, 82, 6, 36, 235, 111, 208, 55, 165, 100, 72, 148, 130, 127, 133, 236, 219, 184, 99, 115, 194, 197, 225, 31, 144, 148, 90, 57, 18, 173, 12, 11, 164, 232, 150, 48, 120, 25, 253, 96, 144, 238, 201, 111, 163, 212, 91, 20, 139, 248, 175, 203, 19, 208, 190, 72, 96, 118, 155, 13, 22, 21, 208, 2, 14, 172, 117, 25, 212, 64, 26, 254, 159>>],
    [data |-> <<4, 212, 91, 235, 155, 122, 94, 54, 57, 201, 160, 220, 226, 174, 108, 195, 231, 238, 194, 35, 176, 173, 252, 168, 113, 65, 182, 55, 0, 82, 170, 40, 0>>,
     out |-> <<241, 239, 41, 75, 77, 91, 203, 112, 134, 181, 26, 0, 98, 212, 215, 52, 49, 224, 33, 201, 90, 31, 16, 59, 26, 67, 68, 26, 89, 122, 31, 21, 222, 237, 160, 148, 143, 189, 246, 7, 124, 49, 135, 2, 72, 199, 128, 153, 2, 168, 187, 94, 157, 124, 78, 96, 205, 75, 206, 88, 108, 162, 118, 5, 171, 178, 89, 62, 176, 154, 4, 195, 172, 5, 214, 79, 145, 154, 176, 112, 58, 5, 186, 243, 214, 238, 137, 171, 105, 62, 38, 181, 218, 117, 190, 136, 67, 159, 92, 231, 43, 89, 128, 11, 118, 222, 254, 25, 238, 74, 151, 197, 85, 23, 31, 119, 191, 147, 212, 58, 128, 7, 78, 120, 1, 112, 243, 15>>],
    [data |-> <<4, 212, 91, 235, 155, 122, 94, 54, 57, 201, 160, 220, 226, 174, 108, 195, 231, 238, 194, 35, 176, 173, 252, 168, 113, 65, 182, 55, 0, 82, 170, 40, 1>>,
     out |-> <<17, 120, 88, 18, 118, 8, 251, 121, 227, 183, 113, 148, 6, 32, 4, 63, 10, 25, 154, 78, 211, 153, 140, 170, 80, 215, 199, 138, 212, 162, 214, 207, 70, 127, 123, 183, 103, 1, 113, 49, 2, 168, 166, 102, 29, 101, 227, 125, 10, 46, 47, 147, 8, 231, 236, 143, 124, 50, 56, 153, 74, 221, 209, 117, 103, 53, 70, 193, 190, 73, 148, 189, 155, 217, 187, 195, 61, 76, 81, 72, 126, 142, 108, 11, 245, 62, 69, 165, 7, 234, 227, 38, 100, 51, 11, 33, 94, 180, 208, 171, 120, 226, 182, 231, 112, 234, 4, 48, 8, 161, 206, 28, 166, 91, 243, 59, 66, 2, 100, 241, 164, 22, 110, 25, 45, 62, 177, 63>>],
    [data |-> <<4, 212, 91, 235, 155, 122, 94, 54, 57, 201, 160, 220, 226, 174, 108, 195, 231, 238, 194, 35, 176, 173, 252, 168, 113, 65, 182, 55, 0, 82, 170, 40, 2>>,
     out |-> <<64, 253, 207, 44, 229, 107, 149, 10, 102, 88, 49, 150, 15, 148, 155, 104, 129, 58, 39, 157, 208, 71, 12, 15, 150, 80, 216, 139, 30, 163, 202, 81, 81, 117, 251, 218, 109, 61, 34, 251, 110, 205, 114, 239, 225, 71, 39, 62, 228, 244, 177, 150, 214, 39, 19, 99, 128, 92, 160, 35, 116, 30, 105, 61, 84, 248, 155, 163, 144, 255, 2, 255, 106, 123, 167, 169, 170, 172, 47, 182, 190, 60, 34, 211, 32, 138, 197, 9, 29, 83, 136, 92, 180, 224, 173, 111, 223, 46, 112, 131, 154, 37, 140, 74, 44, 82, 68, 97, 176, 146, 116, 183, 82, 87, 157, 153, 30, 109, 215, 116, 135, 213, 178, 118, 231, 103, 197, 202>>],
    [data |-> <<112, 114, 109, 218, 220, 198, 166, 167, 57, 13, 143, 18, 142, 176, 251, 63, 217, 201, 177, 209, 201, 224, 26, 195, 36, 32, 219, 79, 239, 179, 192, 140, 0>>,
     out |-> <<56, 151, 164, 97, 205, 12, 8, 109, 154, 47, 69, 183, 196, 12, 153, 28, 167, 82, 74, 8, 134, 13, 165, 142, 210, 31, 37, 234, 107, 142, 126, 146, 218, 109, 198, 8, 237, 208, 58, 41, 58, 61, 119, 115, 0, 119, 101, 81, 117, 203, 160, 210, 248, 135, 243, 41, 134, 250, 84, 45, 217, 236, 92, 49, 146, 247, 177, 89, 209, 189, 169, 220, 201, 223, 221, 29, 140, 239, 242, 202, 13, 99, 49, 161, 117, 145, 38, 8, 90, 178, 113, 34, 222, 62, 105, 220, 172, 40, 26, 196, 83, 165, 150, 151, 48, 1, 245, 235, 85, 255, 128, 56, 16, 186, 173, 123, 156, 23, 157, 92, 77, 169, 227, 165, 147, 250, 202, 213>>],
    [data |-> <<112, 114, 109, 218, 220, 198, 166, 167, 57, 13, 143, 18, 142, 176, 251, 63, 217, 201, 177, 209, 201, 224, 26, 195, 36, 32, 219, 79, 239, 179, 192, 140, 1>>,
     out |-> <<206, 62, 177, 158, 178, 163, 124, 138, 24, 46, 191, 234, 10, 37, 130, 220, 209, 234, 142, 200, 253, 212, 70, 193, 155, 11, 28, 144, 110, 115, 105, 64, 54, 165, 55, 135, 27, 1, 225, 119, 246, 148, 248, 238, 16, 208, 18, 149, 2, 75, 96, 25, 205, 179, 83, 5, 3, 88, 173, 154, 173, 146, 86, 213, 220, 59, 152, 22, 204, 211, 246, 200, 210, 165, 65, 65, 7, 178, 198, 23, 240, 233, 76, 108, 168, 60, 183, 124, 95, 134, 0, 150, 233, 170, 233, 43, 157, 140, 188, 39, 213, 63, 169, 213, 95, 124, 228, 140, 182, 205, 43, 98, 122, 139, 82, 63, 15, 235, 235, 185, 87, 176, 250, 153, 15, 58, 37, 214>>],
    [data |-> <<112, 114, 109, 218, 220, 198, 166, 167, 57, 13, 143, 18, 142, 176, 251, 63, 217, 201, 177, 209, 201, 224, 26, 195, 36, 32, 219, 79, 239, 179, 192, 140, 2>>,
     out |-> <<35, 29, 38, 154, 184, 251, 43, 200, 108, 28, 52, 163, 84, 54, 126, 111, 199, 201, 151, 16, 190, 29, 161, 44, 164, 88, 155, 170, 218, 110, 124, 225, 167, 159, 0, 156, 213, 93, 170, 111, 211, 182, 67, 130, 134, 126, 183, 198, 188, 53, 85, 197, 96, 71, 127, 81, 249, 76, 227, 130, 243, 11, 210, 82, 34, 181, 183, 76, 43, 125, 64, 138, 20, 210, 61, 153, 86, 35, 246, 165, 116, 205, 164, 200, 131, 13, 29, 22, 245, 60, 242, 175, 198, 72, 224, 136, 101, 48, 60, 138, 138, 165, 119, 166, 170, 225, 97, 151, 2, 77, 196, 232, 170, 93, 167, 112, 126, 65, 39, 84, 66, 189, 3, 55, 253, 120, 237, 189>>],
    [data |-> <<138, 106, 6, 133, 125, 217, 131, 71, 233, 162, 163, 75, 38, 252, 106, 10, 109, 64, 58, 218, 249, 155, 22, 93, 54, 90, 25, 163, 194, 35, 99, 129, 0>>,
     out |-> <<215, 221, 40, 45, 0, 15, 37, 93, 174, 181, 42, 196, 113, 227, 211, 103, 144, 21, 194, 227, 134, 161, 109, 73, 167, 98, 106, 102, 46, 76, 250, 215, 45, 68, 249, 168, 2, 52, 94, 79, 125, 185, 172, 22, 152, 102, 103, 194, 19, 136, 195, 70, 80, 47, 42, 61, 151, 82, 187, 3, 157, 249, 142, 131, 233, 5, 88, 217, 212, 35, 136, 74, 204, 100, 50, 240, 119, 154, 70, 27, 149, 144, 146, 173, 42, 76, 35, 198, 12, 139, 226, 20, 76, 131, 23, 233, 38, 116, 212, 64, 8, 253, 236, 199, 23, 184, 17, 2, 181, 147, 177, 141, 120, 117, 169, 25, 129, 41, 57, 163, 162, 67, 135, 204, 111, 22, 204, 107>>],
    [data |-> <<138, 106, 6, 133, 125, 217, 131, 71, 233, 162, 163, 75, 38, 252, 106, 10, 109, 64, 58, 218, 249, 155, 22, 93, 54, 90, 25, 163, 194, 35, 99, 129, 1>>,
     out |-> <<85, 62, 158, 157, 39, 229, 229, 92, 134, 16, 51, 172, 34, 176, 151, 57, 42, 135, 150, 167, 95, 144, 248, 190, 225, 47, 13, 71, 214, 195, 14, 90, 37, 200, 231, 83, 125, 142, 252, 36, 116, 104, 73, 244, 190, 239, 250, 162, 189, 35, 162, 90, 13, 250, 173, 161, 254, 143, 147, 69, 169, 98, 59, 40, 149, 229, 94, 153, 32, 218, 249, 130, 233, 137, 224, 30, 182, 92, 232, 80, 52, 253, 249, 249, 167, 18, 207, 202, 242, 11, 122, 126, 44, 236, 15, 245, 130, 240, 70, 127, 121, 214, 206, 135, 248, 8, 231, 192, 181, 174, 252, 35, 198, 22, 77, 255, 100, 142, 166, 62, 241, 244, 255, 33, 163, 13, 9, 10>>],
    [data |-> <<138, 106, 6, 133, 125, 217, 131, 71, 233, 162, 163, 75, 38, 252, 106, 10, 109, 64, 58, 218, 249, 155, 22, 93, 54, 90, 25, 163, 194, 35, 99, 129, 2>>,
     out |-> <<22, 73, 247, 63, 238, 95, 72, 194, 231, 71, 27, 65, 190, 66, 184, 225, 202, 237, 16, 135, 230, 3, 12, 1, 61, 203, 93, 97, 49, 125, 194, 231, 102, 219, 128, 21, 219, 30, 128, 232, 245, 185, 105, 11, 227, 13, 243, 37, 219, 244, 245, 81, 10, 113, 47, 145, 83, 189, 248, 58, 213, 233, 154, 222, 157, 121, 110, 207, 225, 51, 228, 187, 180, 35, 243, 2, 230, 97, 68, 106, 177, 179, 88, 156, 6, 178, 21, 122, 178, 224, 126, 103, 94, 208, 202, 122, 112, 169, 54, 105, 52, 243, 206, 203, 255, 106, 183, 35, 227, 195, 215, 180, 77, 26, 39, 116, 133, 186, 4, 41, 24, 165, 15, 42, 207, 180, 127, 59>>],
    [data |-> <<73, 243, 38, 95, 126, 181, 152, 192, 151, 26, 27, 39, 249, 179, 97, 236, 195, 91, 183, 47, 220, 97, 68, 239, 58, 121, 209, 48, 106, 77, 22, 42, 0>>,
     out |-> <<43, 36, 119, 248, 42, 247, 50, 67, 82, 148, 109, 89, 213, 243, 243, 108, 163, 162, 232, 64, 172, 10, 106, 232, 103, 56, 210, 16, 212, 195, 39, 233, 201, 151, 121, 177, 251, 218, 224, 183, 109, 209, 32, 181, 148, 133, 78, 86, 48, 156, 56, 150, 154, 76, 214, 125, 218, 27, 90, 157, 56, 205, 223, 197, 201, 149, 31, 223, 99, 244, 148, 53, 39, 170, 14, 12, 19, 205, 167, 63, 239, 43, 178, 36, 231, 251, 14, 199, 99, 119, 26, 239, 0, 174, 210, 18, 94, 102, 53, 31, 33, 71, 66, 128, 45, 143, 178, 240, 251, 125, 250, 82, 202, 243, 172, 208, 240, 201, 208, 212, 55, 190, 114, 87, 57, 53, 192, 114>>],
    [data |-> <<73, 243, 38, 95, 126, 181, 152, 192, 151, 26, 27, 39, 249, 179, 97, 236, 195, 91, 183, 47, 220, 97, 68, 239, 58, 121, 209, 48, 106, 77, 22, 42, 1>>,
     out |-> <<240, 238, 73, 172, 144, 95, 241, 42, 76, 151, 235, 35, 98, 190, 249, 50, 49, 201, 196, 58, 143, 75, 68, 49, 196, 143, 103, 150, 196, 103, 119, 31, 197, 124, 133, 52, 87, 95, 241, 47, 244, 59, 154, 167, 102, 239, 244, 240, 49, 143, 219, 13, 50, 5, 211, 207, 200, 2, 40, 235, 241, 17, 133, 22, 101, 75, 157, 76, 60, 72, 58, 26, 155, 35, 74, 80, 239, 162, 23, 125, 60, 10, 122, 210, 106, 62, 182, 7, 22, 223, 27, 159, 23, 248, 179, 210, 18, 111, 248, 166, 116, 247, 77, 129, 176, 77, 135, 152, 10, 246, 22, 157, 105, 212, 106, 100, 156, 130, 102, 120, 78, 51, 18, 243, 71, 14, 148, 77>>],
    [data |-> <<73, 243, 38, 95, 126, 181, 152, 192, 151, 26, 27, 39, 249, 179, 97, 236, 195, 91, 183, 47, 220, 97, 68, 239, 58, 121, 209, 48, 106, 77, 22, 42, 2>>,
     out |-> <<21, 248, 161, 187, 36, 253, 122, 239, 20, 4, 106, 58, 171, 128, 115, 218, 255, 204, 11, 207, 185, 22, 215, 41, 74, 126, 214, 34, 27, 128, 191, 64, 218, 113, 175, 79, 173, 131, 172, 178, 14, 75, 98, 141, 252, 118, 125, 236, 161, 108, 52, 244, 1, 108, 236, 88, 48, 254, 153, 22, 133, 175, 132, 160, 144, 161, 191, 26, 95, 97, 198, 61, 122, 87, 101, 43, 114, 71, 132, 10, 29, 11, 66, 192, 95, 20, 162, 118, 206, 75, 169, 153, 6, 100, 89, 77, 151, 74, 106, 170, 189, 208, 63, 84, 10, 146, 171, 229, 217, 86, 202, 80, 221, 226, 164, 171, 252, 103, 18, 202, 40, 35, 163, 153, 206, 167, 248, 202>>],
    [data |-> <<61, 156, 153, 171, 56, 132, 10, 118, 207, 148, 74, 8, 70, 31, 197, 16, 78, 88, 181, 130, 175, 181, 34, 166, 151, 58, 163, 127, 165, 99, 134, 88, 0>>,
     out |-> <<28, 30, 34, 217, 9, 28, 141, 46, 25, 224, 255, 121, 125, 219, 247, 50, 212, 194, 170, 169, 144, 173, 88, 152, 14, 138, 7, 77, 130, 179, 120, 35, 74, 239, 146, 167, 135, 149, 158, 246, 178, 208, 212, 169, 130, 145, 21, 34, 135, 89, 211, 121, 25, 169, 74, 88, 8, 96, 222, 68, 48, 22, 135, 202, 246, 138, 168, 65, 13, 172, 118, 89, 155, 199, 71, 4, 233, 166, 84, 207, 36, 236, 234, 9, 138, 162, 164, 147, 28, 64, 134, 56, 14, 164, 158, 104, 182, 209, 130, 244, 209, 185, 162, 18, 149, 110, 145, 52, 56, 8, 163, 193, 199, 138, 64, 32, 33, 111, 97, 159, 132, 220, 193, 213, 209, 140, 179, 47>>],
    [data |-> <<61, 156, 153, 171, 56, 132, 10, 118, 207, 148, 74, 8, 70, 31, 197, 16, 78, 88, 181, 130, 175, 181, 34, 166, 151, 58, 163, 127, 165, 99, 134, 88, 1>>,
     out |-> <<160, 159, 95, 152, 156, 126, 232, 221, 138, 8, 187, 74, 112, 24, 214, 67, 8, 97, 227, 66, 125, 125, 92, 239, 228, 82, 47, 239, 162, 134, 101, 8, 78, 251, 41, 10, 12, 254, 27, 92, 126, 13, 123, 248, 222, 99, 89, 196, 48, 27, 224, 71, 214, 242, 220, 124, 163, 194, 25, 235, 135, 204, 182, 135, 103, 233, 5, 61, 247, 166, 234, 34, 255, 68, 42, 146, 83, 20, 159, 218, 45, 99, 165, 90, 201, 183, 160, 13, 32, 166, 121, 182, 124, 210, 68, 173, 235, 107, 82, 41, 131, 213, 186, 90, 15, 110, 110, 232, 47, 251, 173, 139, 47, 18, 137, 241, 83, 130, 64, 228, 145, 183, 40, 197, 173, 237, 85, 141>>],
    [data |-> <<61, 156, 153, 171, 56, 132, 10, 118, 207, 148, 74, 8, 70, 31, 197, 16, 78, 88, 181, 130, 175, 181, 34, 166, 151, 58, 163, 127, 165, 99, 134, 88, 2>>,
     out |-> <<130, 111, 196, 222, 231, 51, 27, 8, 30, 227, 112, 108, 200, 173, 40, 187, 146, 20, 102, 207, 42, 195, 37, 104, 215, 174, 193, 236, 111, 83, 233, 60, 162, 2, 244, 170, 235, 64, 211, 101, 67, 83, 111, 7, 39, 14, 40, 221, 12, 13, 36, 86, 178, 156, 100, 94, 27, 151, 236, 71, 0, 111, 73, 199, 160, 200, 185, 19, 141, 14, 65, 99, 232, 23, 41, 164, 244, 22, 253, 148, 244, 28, 220, 93, 166, 251, 243, 87, 155, 251, 248, 102, 100, 167, 164, 141, 246, 210, 164, 74, 245, 13, 226, 153, 235, 138, 23, 27, 160, 35, 5, 130, 31, 90, 189, 73, 250, 66, 225, 25, 82, 100, 50, 142, 90, 24, 56, 179>>],
    [data |-> <<52, 185, 15, 187, 20, 189, 123, 80, 231, 182, 48, 160, 53, 33, 5, 251, 95, 128, 40, 111, 53, 113, 60, 161, 39, 32, 24, 199, 239, 215, 94, 208, 0>>,
     out |-> <<160, 179, 14, 240, 152, 68, 74, 71, 245, 148, 42, 76, 35, 157, 28, 40, 251, 74, 200, 140, 51, 214, 112, 172, 206, 56, 124, 64, 94, 82, 164, 48, 126, 191, 56, 164, 225, 235, 237, 118, 45, 172, 181, 20, 110, 159, 66, 119, 175, 51, 197, 244, 189, 237, 38, 181, 230, 92, 97, 13, 227, 34, 110, 86, 4, 171, 138, 76, 184, 221, 116, 54, 207, 74, 236, 196, 27, 183, 183, 202, 53, 248, 22, 166, 9, 183, 88, 16, 125, 151, 193, 92, 191, 191, 12, 211, 218, 130, 97, 101, 175, 8, 196, 191, 218, 68, 151, 132, 21, 160, 21, 241, 225, 42, 173, 115, 216, 252, 201, 142, 3, 117, 32, 41, 173, 193, 245, 14>>],
    [data |-> <<52, 185, 15, 187, 20, 189, 123, 80, 231, 182, 48, 160, 53, 33, 5, 251, 95, 128, 40, 111, 53, 113, 60, 161, 39, 32, 24, 199, 239, 215, 94, 208, 1>>,
     out |-> <<244, 166, 201, 221, 180, 63, 235, 4, 87, 104, 14, 241, 116, 12, 116, 223, 74, 34, 185, 90, 45, 133, 111, 30, 33, 29, 145, 185, 28, 78, 74, 132, 125, 132, 83, 170, 74, 234, 61, 70, 39, 223, 106, 16, 23, 131, 203, 28, 103, 152, 133, 37, 165, 188, 3, 139, 102, 17, 94, 237, 96, 138, 35, 47, 50, 70, 220, 23, 45, 248, 81, 133, 175, 159, 44, 153, 163, 136, 9, 237, 249, 251, 171, 115, 50, 218, 155, 23, 117, 197, 244, 255, 254, 155, 231, 158, 61, 34, 67, 144, 126, 39, 184, 103, 247, 77, 247, 4, 113, 128, 146, 58, 151, 199, 221, 187, 249, 209, 37, 92, 81, 178, 73, 126, 188, 174, 145, 24>>],
    [data |-> <<52, 185, 15, 187, 20, 189, 123, 80, 231, 182, 48, 160, 53, 33, 5, 251, 95, 128, 40, 111, 53, 113, 60, 161, 39, 32, 24, 199, 239, 215, 94, 208, 2>>,
     out |-> <<185, 191, 186, 157, 169, 103, 96, 144, 151, 164, 147, 230, 53, 11, 249, 90, 157, 113, 163, 207, 85, 184, 197, 129, 109, 216, 94, 252, 229, 226, 232, 32, 109, 96, 75, 144, 199, 49, 74, 232, 101, 222, 17, 173, 115, 160, 87, 127, 117, 177, 19, 62, 66, 48, 110, 222, 66, 205, 81, 98, 135, 192, 216, 111, 73, 235, 77, 61, 53, 68, 188, 116, 118, 93, 35, 167, 44, 158, 58, 254, 108, 239, 208, 252, 204, 40, 251, 133, 25, 63, 158, 45, 170, 176, 33, 194, 20, 37, 215, 115, 163, 90, 111, 130, 53, 79, 236, 222, 156, 161, 180, 237, 85, 151, 92, 36, 75, 195, 65, 212, 125, 81, 184, 170, 117, 133, 252, 60>>],
    [data |-> <<248, 152, 67, 138, 154, 117, 175, 243, 103, 227, 99, 255, 41, 179, 56, 169, 100, 213, 163, 36, 226, 66, 198, 210, 248, 236, 200, 203, 134, 168, 243, 36, 0>>,
     out |-> <<118, 194, 98, 133, 169, 14, 250, 36, 167, 102, 7, 196, 189, 34, 219, 98, 234, 236, 235, 122, 78, 11, 146, 0, 214, 179, 148, 68, 153, 108, 46, 188, 39, 93, 12, 111, 30, 207, 153, 120, 208, 130, 226, 34, 19, 226, 149, 220, 158, 196, 170, 169, 58, 125, 14, 196, 115, 80, 70, 253, 208, 155, 199, 57, 214, 52, 156, 148, 46, 12, 217, 130, 160, 130, 178, 149, 148, 219, 70, 178, 5, 45, 182, 171, 250, 240, 15, 46, 7, 118, 157, 51, 107, 186, 180, 128, 14, 54, 142, 38, 202, 136, 221, 36, 151, 110, 7, 100, 242, 216, 89, 213, 218, 178, 209, 157, 209, 114, 136, 174, 30, 184, 80, 118, 154, 116, 143, 249>>],
    [data |-> <<248, 152, 67, 138, 154, 117, 175, 243, 103, 227, 99, 255, 41, 179, 56, 169, 100, 213, 163, 36, 226, 66, 198, 210, 248, 236, 200, 203, 134, 168, 243, 36, 1>>,
     out |-> <<74, 235, 244, 180, 18, 165, 191, 67, 226, 24, 44, 152, 84, 123, 60, 71, 96, 94, 44, 23, 207, 127, 218, 210, 113, 185, 33, 100, 98, 171, 108, 204, 38, 37, 219, 133, 111, 165, 74, 135, 64, 81, 27, 20, 142, 73, 32, 249, 232, 183, 197, 232, 144, 14, 166, 169, 131, 3, 46, 160, 162, 175, 121, 64, 3, 223, 142, 43, 90, 185, 79, 8, 13, 199, 216, 130, 167, 233, 227, 193, 229, 41, 216, 151, 76, 69, 213, 134, 51, 12, 90, 63, 55, 98, 185, 80, 70, 189, 193, 185, 211, 228, 5, 5, 110, 173, 232, 152, 208, 175, 194, 229, 244, 96, 226, 98, 198, 111, 12, 50, 171, 43, 87, 71, 134, 73, 226, 209>>],
    [data |-> <<248, 152, 67, 138, 154, 117, 175, 243, 103, 227, 99, 255, 41, 179, 56, 169, 100, 213, 163, 36, 226, 66, 198, 210, 248, 236, 200, 203, 134, 168, 243, 36, 2>>,
     out |-> <<43, 143, 242, 56, 236, 127, 99, 231, 167, 209, 35, 251, 239, 107, 255, 160, 247, 67, 154, 251, 200, 192, 125, 93, 29, 204, 135, 46, 232, 34, 184, 82, 40, 121, 90, 217, 60, 122, 134, 101, 136, 85, 18, 222, 82, 86, 54, 246, 226, 58, 164, 189, 209, 236, 208, 7, 137, 103, 235, 10, 134, 223, 167, 83, 217, 46, 119, 138, 128, 193, 194, 234, 7, 3, 166, 48, 103, 163, 25, 197, 31, 211, 41, 10, 139, 196, 98, 89, 211, 22, 238, 67, 36, 9, 159, 200, 5, 156, 17, 86, 44, 188, 219, 244, 182, 141, 121, 238, 129, 245, 78, 73, 106, 216, 97, 104, 82, 241, 139, 62, 247, 4, 60, 43, 42, 11, 15, 98>>],
    [data |-> <<189, 203, 69, 249, 9, 163, 76, 182, 86, 45, 72, 208, 3, 204, 76, 36, 156, 4, 89, 82, 215, 27, 226, 128, 20, 97, 254, 66, 52, 168, 195, 251, 0>>,
     out |-> <<252, 58, 238, 22, 114, 161, 200, 68, 212, 34, 253, 104, 131, 66, 37, 22, 132, 81, 12, 214, 34, 7, 114, 240, 115, 36, 109, 34, 93, 58, 47, 173, 158, 227, 106, 59, 129, 170, 49, 215, 24, 41, 100, 150, 73, 116, 170, 104, 252, 82, 223, 28, 85, 13, 190, 21, 202, 46, 196, 181, 79, 136, 238, 33, 124, 39, 225, 203, 114, 15, 241, 22, 180, 176, 12, 107, 153, 11, 171, 206, 186, 39, 254, 46, 132, 220, 86, 4, 170, 236, 145, 78, 11, 88, 177, 4, 222, 199, 0, 193, 192, 224, 170, 77, 65, 57, 147, 30, 247, 27, 228, 222, 22, 172, 17, 83, 25, 8, 215, 136, 183, 27, 89, 5, 142, 134, 88, 239>>],
    [data |-> <<189, 203, 69, 249, 9, 163, 76, 182, 86, 45, 72, 208, 3, 204, 76, 36, 156, 4, 89, 82, 215, 27, 226, 128, 20, 97, 254, 66, 52, 168, 195, 251, 1>>,
     out |-> <<219, 76, 79, 54, 222, 72, 173, 170, 246, 126, 251, 28, 40, 248, 212, 55, 23, 225, 30, 84, 180, 97, 249, 19, 146, 152, 158, 226, 200, 248, 227, 0, 74, 128, 185, 141, 110, 166, 39, 159, 65, 13, 106, 220, 225, 200, 112, 250, 26, 232, 173, 180, 77, 113, 139, 27, 182, 188, 144, 3, 154, 68, 69, 72, 222, 96, 36, 24, 64, 53, 99, 14, 224, 69, 155, 167, 96, 17, 69, 68, 180, 69, 57, 80, 215, 84, 181, 95, 252, 60, 3, 163, 105, 102, 56, 64, 242, 192, 94, 157, 178, 60, 118, 12, 157, 145, 130, 245, 188, 57, 59, 182, 223, 6, 105, 118, 238, 110, 211, 219, 98, 84, 61, 249, 88, 240, 180, 149>>],
    [data |-> <<189, 203, 69, 249, 9, 163, 76, 182, 86, 45, 72, 208, 3, 204, 76, 36, 156, 4, 89, 82, 215, 27, 226, 128, 20, 97, 254, 66, 52, 168, 195, 251, 2>>,
     out |-> <<189, 152, 189, 246, 114, 139, 13, 2, 50, 173, 252, 151, 112, 200, 113, 63, 23, 254, 8, 191, 29, 157, 221, 187, 118, 127, 42, 145, 4, 143, 239, 112, 159, 141, 92, 54, 240, 26, 215, 135, 5, 52, 47, 20, 205, 166, 78, 116, 144, 66, 125, 214, 225, 67, 131, 20, 115, 2, 228, 230, 210, 72, 170, 81, 95, 183, 180, 134, 225, 210, 60, 125, 166, 100, 21, 192, 6, 8, 187, 219, 33, 3, 13, 243, 128, 135, 114, 244, 59, 96, 250, 57, 175, 134, 195, 226, 106, 9, 213, 142, 7, 28, 221, 233, 33, 232, 49, 76, 97, 248, 69, 176, 54, 42, 237, 14, 42, 230, 146, 89, 248, 149, 226, 176, 222, 31, 165, 82>>],
    [data |-> <<195, 74, 54, 12, 118, 109, 205, 63, 66, 232, 177, 208, 90, 42, 156, 84, 97, 33, 62, 113, 36, 250, 97, 34, 136, 60, 25, 184, 151, 32, 226, 42, 0>>,
     out |-> <<252, 67, 211, 190, 1, 177, 5, 194, 76, 213, 92, 219, 255, 75, 100, 49, 104, 36, 92, 88, 236, 123, 252, 214, 20, 235, 4, 61, 102, 43, 201, 158, 137, 31, 42, 218, 202, 132, 30, 206, 109, 52, 211, 191, 2, 108, 157, 115, 26, 238, 152, 129, 98, 24, 128, 255, 10, 104, 233, 128, 117, 223, 223, 134, 218, 166, 226, 103, 145, 69, 80, 83, 104, 199, 11, 41, 183, 188, 28, 222, 4, 32, 12, 202, 253, 73, 12, 136, 20, 26, 126, 67, 28, 187, 183, 141, 201, 94, 97, 190, 128, 78, 79, 149, 230, 58, 165, 112, 132, 231, 36, 157, 48, 2, 168, 121, 154, 62, 90, 12, 66, 168, 252, 113, 0, 245, 118, 166>>],
    [data |-> <<195, 74, 54, 12, 118, 109, 205, 63, 66, 232, 177, 208, 90, 42, 156, 84, 97, 33, 62, 113, 36, 250, 97, 34, 136, 60, 25, 184, 151, 32, 226, 42, 1>>,
     out |-> <<210, 16, 170, 224, 232, 248, 84, 203, 133, 165, 31, 226, 234, 227, 123, 17, 20, 90, 101, 27, 77, 59, 234, 158, 25, 95, 108, 243, 117, 107, 30, 215, 110, 2, 94, 111, 236, 41, 148, 89, 1, 96, 21, 249, 25, 5, 182, 182, 75, 33, 75, 178, 97, 29, 251, 92, 62, 245, 129, 128, 203, 70, 18, 87, 59, 213, 64, 171, 182, 31, 127, 73, 254, 235, 6, 55, 103, 153, 35, 75, 53, 141, 47, 190, 220, 93, 164, 145, 196, 130, 191, 32, 85, 215, 40, 207, 196, 229, 24, 224, 209, 172, 208, 28, 205, 191, 206, 107, 153, 114, 74, 179, 249, 231, 187, 51, 156, 170, 176, 221, 8, 32, 145, 47, 121, 98, 101, 223>>],
    [data |-> <<195, 74, 54, 12, 118, 109, 205, 63, 66, 232, 177, 208, 90, 42, 156, 84, 97, 33, 62, 113, 36, 250, 97, 34, 136, 60, 25, 184, 151, 32, 226, 42, 2>>,
     out |-> <<0, 207, 144, 76, 150, 203, 180, 252, 38, 200, 115, 242, 218, 223, 70, 117, 173, 138, 120, 32, 255, 39, 20, 146, 246, 24, 81, 232, 158, 146, 178, 123, 167, 8, 191, 150, 160, 117, 188, 231, 99, 98, 2, 64, 54, 16, 92, 29, 112, 86, 84, 191, 149, 185, 240, 105, 22, 227, 230, 96, 243, 197, 182, 62, 150, 5, 225, 103, 231, 199, 43, 128, 179, 0, 235, 28, 111, 244, 236, 108, 146, 226, 21, 156, 241, 189, 122, 131, 108, 99, 202, 225, 55, 157, 129, 31, 41, 99, 75, 235, 146, 106, 214, 226, 44, 21, 20, 186, 225, 23, 200, 41, 135, 249, 22, 41, 99, 251, 40, 130, 195, 60, 193, 98, 86, 9, 69, 166>>],
    [data |-> <<48, 38, 190, 210, 242, 200, 215, 229, 110, 113, 141, 127, 97, 254, 233, 214, 178, 19, 135, 161, 154, 138, 218, 236, 231, 9, 71, 57, 189, 156, 76, 153, 0>>,
     out |-> <<52, 26, 25, 64, 183, 17, 251, 93, 25, 197, 232, 239, 63, 89, 30, 41, 118, 63, 195, 246, 242, 177, 111, 194, 52, 149, 22, 108, 20, 56, 17, 162, 237, 107, 210, 19, 226, 162, 188, 250, 186, 20, 71, 1, 34, 200, 129, 241, 66, 99, 185, 185, 87, 67, 198, 221, 87, 208, 193, 91, 52, 71, 30, 44, 208, 209, 71, 110, 209, 103, 54, 173, 147, 125, 99, 207, 224, 24, 32, 134, 241, 43, 34, 90, 101, 80, 147, 152, 156, 182, 6, 1, 18, 100, 186, 84, 109, 32, 89, 2, 235, 61, 59, 122, 121, 186, 165, 93, 123, 20, 225, 59, 213, 23, 79, 175, 173, 92, 15, 207, 112, 53, 58, 135, 144, 51, 2, 40>>],
    [data |-> <<48, 38, 190, 210, 242, 200, 215, 229, 110, 113, 141, 127, 97, 254, 233, 214, 178, 19, 135, 161, 154, 138, 218, 236, 231, 9, 71, 57, 189, 156, 76, 153, 1>>,
     out |-> <<189, 230, 236, 102, 29, 145, 18, 184, 17, 158, 103, 162, 220, 113, 189, 64, 42, 103, 90, 43, 139, 215, 26, 115, 37, 2, 41, 89, 166, 43, 202, 202, 145, 35, 179, 44, 194, 162, 1, 140, 177, 148, 105, 68, 56, 52, 211, 40, 204, 90, 224, 225, 33, 93, 102, 221, 147, 193, 212, 62, 113, 130, 123, 65, 215, 135, 74, 243, 88, 223, 180, 90, 70, 139, 114, 211, 51, 17, 245, 220, 5, 244, 98, 174, 71, 118, 222, 214, 12, 179, 174, 254, 196, 44, 164, 33, 30, 206, 125, 223, 118, 153, 139, 192, 187, 207, 130, 73, 209, 109, 47, 177, 44, 103, 31, 219, 215, 173, 152, 102, 115, 82, 82, 158, 35, 233, 4, 237>>],
    [data |-> <<48, 38, 190, 210, 242, 200, 215, 229, 110, 113, 141, 127, 97, 254, 233, 214, 178, 19, 135, 161, 154, 138, 218, 236, 231, 9, 71, 57, 189, 156, 76, 153, 2>>,
     out |-> <<219, 52, 181, 194, 133, 7, 215, 198, 17, 188, 56, 153, 204, 29, 104, 255, 11, 248, 165, 91, 40, 3, 253, 244, 39, 99, 131, 179, 181, 161, 13, 130, 243, 177, 15, 93, 253, 183, 190, 222, 158, 84, 70, 18, 132, 19, 27, 122, 10, 175, 157, 38, 65, 12, 244, 103, 147, 139, 164, 219, 201, 193, 193, 73, 158, 155, 133, 81, 164, 237, 252, 201, 239, 79, 64, 166, 21, 140, 18, 17, 17, 131, 135, 245, 239, 97, 21, 34, 236, 200, 241, 167, 153, 213, 179, 161, 240, 252, 47, 204, 84, 167, 215, 33, 5, 237, 51, 194, 158, 168, 209, 88, 197, 252, 92, 145, 172, 185, 209, 158, 246, 15, 187, 21, 40, 114, 255, 140>>],
    [data |-> <<160, 68, 214, 28, 4, 155, 106, 52, 140, 252, 6, 6, 158, 145, 147, 203, 151, 130, 52, 237, 39, 144, 190, 141, 76, 205, 222, 54, 12, 68, 191, 18, 0>>,
     out |-> <<225, 157, 15, 201, 137, 165, 130, 233, 80, 78, 207, 169, 172, 219, 34, 215, 214, 149, 59, 150, 192, 6, 70, 229, 81, 181, 75, 142, 205, 252, 57, 43, 56, 213, 181, 1, 190, 91, 79, 45, 117, 101, 13, 27, 89, 48, 198, 32, 250, 42, 17, 100, 14, 79, 131, 58, 115, 224, 204, 230, 72, 227, 24, 102, 91, 67, 63, 116, 42, 157, 65, 12, 219, 86, 20, 241, 183, 241, 44, 70, 123, 83, 116, 235, 41, 44, 56, 170, 16, 111, 251, 206, 78, 184, 153, 156, 209, 192, 37, 192, 224, 41, 10, 185, 86, 225, 168, 48, 59, 45, 180, 99, 222, 179, 83, 114, 74, 153, 228, 143, 237, 221, 61, 188, 52, 201, 192, 98>>],
    [data |-> <<160, 68, 214, 28, 4, 155, 106, 52, 140, 252, 6, 6, 158, 145, 147, 203, 151, 130, 52, 237, 39, 144, 190, 141, 76, 205, 222, 54, 12, 68, 191, 18, 1>>,
     out |-> <<186, 195, 42, 143, 237, 64, 156, 23, 169, 97, 248, 10, 52, 42, 36, 114, 89, 119, 55, 91, 68, 117, 94, 50, 130, 106, 231, 76, 75, 238, 183, 68, 30, 144, 96, 82, 29, 38, 73, 119, 206, 135, 149, 150, 36, 51, 181, 74, 104, 220, 106, 151, 172, 66, 183, 98, 36, 165, 111, 154, 158, 217, 114, 188, 146, 182, 119, 253, 24, 70, 195, 51, 108, 10, 36, 7, 242, 76, 116, 77, 8, 8, 120, 32, 49, 111, 108, 102, 55, 161, 237, 218, 167, 18, 251, 252, 103, 177, 109, 138, 105, 44, 178, 87, 141, 126, 167, 83, 78, 5, 118, 81, 141, 45, 212, 58, 108, 200, 237, 199, 19, 152, 234, 107, 51, 12, 224, 56>>],
    [data |-> <<160, 68, 214, 28, 4, 155, 106, 52, 140, 252, 6, 6, 158, 145, 147, 203, 151, 130, 52, 237, 39, 144, 190, 141, 76, 205, 222, 54, 12, 68, 191, 18, 2>>,
     out |-> <<153, 47, 19, 28, 101, 92, 109, 58, 140, 4, 14, 234, 137, 15, 177, 139, 209, 54, 138, 190, 170, 217, 99, 110, 145, 59, 243, 55, 222, 215, 231, 168, 50, 159, 241, 131, 122, 254, 208, 192, 4, 69, 28, 87, 170, 73, 222, 13, 222, 56, 62, 188, 148, 240, 193, 126, 115, 177, 5, 244, 60, 121, 171, 155, 254, 133, 246, 92, 63, 211, 105, 205, 105, 36, 161, 177, 68, 140, 53, 75, 0, 226, 131, 197, 82, 24, 114, 207, 70, 138, 138, 17, 65, 253, 111, 11, 48, 183, 197, 25, 156, 111, 118, 253, 234, 157, 111, 128, 153, 174, 30, 120, 30, 0, 196, 244, 162, 53, 76, 77, 72, 186, 20, 180, 130, 44, 127, 254>>],
    [data |-> <<138, 51, 65, 29, 69, 231, 177, 80, 154, 80, 207, 208, 23, 24, 38, 137, 196, 134, 79, 150, 143, 152, 27, 106, 135, 169, 133, 177, 205, 124, 8, 155, 0>>,
     out |-> <<0, 250, 59, 92, 48, 205, 205, 42, 165, 101, 138, 243, 233, 113, 225, 187, 224, 45, 199, 1, 195, 3, 231, 24, 124, 239, 234, 108, 109, 191, 100, 112, 155, 223, 231, 190, 217, 73, 203, 6, 66, 97, 162, 191, 192, 25, 142, 49, 133, 176, 115, 2, 31, 188, 84, 104, 217, 6, 91, 61, 91, 108, 224, 61, 255, 16, 53, 92, 39, 54, 150, 2, 168, 229, 197, 81, 76, 159, 28, 172, 14, 217, 209, 142, 3, 82, 12, 255, 230, 221, 32, 232, 5, 232, 229, 128, 15, 248, 198, 140, 21, 76, 231, 77, 80, 97, 3, 56, 44, 167, 175, 5, 156, 34, 123, 7, 182, 41, 230, 189, 56, 202, 95, 255, 217, 162, 214, 195>>],
    [data |-> <<138, 51, 65, 29, 69, 231, 177, 80, 154, 80, 207, 208, 23, 24, 38, 137, 196, 134, 79, 150, 143, 152, 27, 106, 135, 169, 133, 177, 205, 124, 8, 155, 1>>,
     out |-> <<68, 108, 112, 129, 196, 219, 233, 138, 207, 188, 189, 97, 2, 119, 249, 63, 26, 180, 105, 199, 34, 254, 157, 90, 105, 8, 160, 106, 70, 207, 192, 219, 53, 17, 109, 147, 83, 83, 240, 67, 213, 7, 94, 254, 124, 44, 0, 50, 233, 49, 115, 77, 189, 10, 13, 234, 83, 248, 107, 253, 131, 2, 128, 182, 15, 93, 132, 69, 35, 142, 135, 77, 21, 136, 181, 10, 36, 108, 192, 30, 97, 211, 223, 77, 159, 49, 21, 104, 214, 86, 198, 229, 71, 226, 16, 240, 145, 103, 155, 67, 248, 11, 191, 61, 152, 47, 1, 190, 138, 44, 224, 68, 227, 48, 159, 154, 229, 10, 192, 245, 170, 132, 100, 142, 5, 115, 69, 218>>],
    [data |-> <<138, 51, 65, 29, 69, 231, 177, 80, 154, 80, 207, 208, 23, 24, 38, 137, 196, 134, 79, 150, 143, 152, 27, 106, 135, 169, 133, 177, 205, 124, 8, 155, 2>>,
     out |-> <<113, 195, 56, 211, 15, 103, 4, 136, 175, 210, 40, 179, 80, 89, 7, 212, 59, 37, 161, 61, 235, 10, 17, 36, 45, 163, 19, 14, 12, 146, 254, 234, 18, 226, 192, 76, 208, 201, 88, 153, 19, 45, 20, 100, 172, 134, 103, 23, 99, 151, 57, 123, 170, 113, 53, 35, 14, 118, 184, 238, 195, 27, 103, 113, 236, 192, 102, 251, 217, 100, 218, 147, 244, 34, 128, 168, 208, 170, 118, 58, 207, 21, 232, 3, 106, 195, 144, 141, 193, 127, 43, 103, 67, 83, 155, 36, 121, 114, 254, 176, 11, 98, 104, 242, 252, 54, 110, 191, 69, 83, 218, 98, 76, 113, 241, 105, 179, 174, 214, 16, 193, 32, 44, 112, 230, 231, 219, 140>>],
    [data |-> <<198, 57, 55, 93, 209, 232, 190, 238, 26, 163, 207, 145, 70, 125, 63, 181, 186, 94, 194, 150, 249, 226, 207, 63, 18, 248, 223, 94, 107, 232, 8, 186, 0>>,
     out |-> <<189, 163, 170, 110, 253, 59, 141, 66, 188, 162, 88, 198, 84, 186, 188, 8, 66, 248, 229, 89, 11, 219, 24, 115, 252, 146, 9, 51, 210, 142, 111, 167, 200, 130, 76, 91, 236, 237, 152, 83, 204, 208, 78, 121, 60, 168, 74, 112, 219, 184, 254, 10, 179, 80, 131, 89, 56, 138, 105, 10, 85, 210, 130, 6, 34, 171, 80, 40, 47, 154, 84, 100, 223, 162, 175, 112, 187, 118, 239, 77, 222, 50, 69, 196, 189, 58, 31, 17, 219, 112, 195, 138, 138, 190, 134, 157, 175, 107, 212, 243, 69, 107, 115, 232, 211, 33, 230, 247, 58, 204, 97, 228, 235, 69, 135, 117, 213, 14, 28, 174, 99, 248, 166, 25, 75, 253, 218, 65>>],
    [data |-> <<198, 57, 55, 93, 209, 232, 190, 238, 26, 163, 207, 145, 70, 125, 63, 181, 186, 94, 194, 150, 249, 226, 207, 63, 18, 248, 223, 94, 107, 232, 8, 186, 1>>,
     out |-> <<164, 131, 2, 18, 125, 33, 199, 15, 61, 149, 24, 119, 1, 236, 75, 211, 108, 91, 60, 186, 233, 224, 161, 112, 215, 120, 0, 197, 143, 234, 6, 17, 61, 217, 225, 180, 184, 237, 156, 54, 208, 185, 132, 180, 223, 35, 249, 28, 248, 72, 250, 253, 151, 60, 194, 232, 27, 190, 248, 144, 180, 77, 124, 75, 221, 214, 1, 57, 108, 124, 31, 53, 207, 33, 25, 157, 137, 209, 163, 43, 20, 67, 15, 99, 236, 80, 31, 230, 137, 197, 46, 175, 236, 248, 88, 50, 46, 144, 136, 203, 196, 45, 67, 105, 29, 30, 129, 137, 253, 158, 62, 194, 192, 102, 212, 151, 54, 245, 220, 66, 235, 77, 187, 252, 182, 7, 50, 152>>],
    [data |-> <<198, 57, 55, 93, 209, 232, 190, 238, 26, 163, 207, 145, 70, 125, 63, 181, 186, 94, 194, 150, 249, 226, 207, 63, 18, 248, 223, 94, 107, 232, 8, 186, 2>>,
     out |-> <<231, 213, 220, 106, 25, 128, 231, 59, 220, 166, 244, 200, 122, 250, 54, 124, 44, 161, 201, 129, 185, 64, 154, 0, 69, 181, 119, 200, 203, 205, 30, 120, 93, 239, 224, 200, 246, 45, 158, 84, 44, 102, 176, 204, 10, 137, 189, 7, 65, 224, 111, 231, 254, 162, 66, 89, 80, 113, 83, 173, 67, 66, 126, 171, 72, 35, 163, 170, 32, 132, 111, 106, 250, 185, 179, 77, 164, 116, 230, 5, 88, 32, 106, 128, 140, 66, 255, 6, 253, 113, 189, 218, 242, 123, 159, 60, 71, 167, 188, 81, 5, 192, 157, 209, 11, 218, 101, 101, 117, 52, 34, 85, 25, 151, 200, 72, 108, 144, 252, 9, 223, 99, 192, 114, 243, 136, 140, 237>>],
    [data |-> <<122, 29, 196, 189, 222, 14, 148, 103, 37, 136, 18, 59, 12, 15, 76, 159, 203, 3, 51, 30, 177, 43, 50, 121, 172, 234, 217, 52, 205, 142, 52, 55, 0>>,
     out |-> <<234, 254, 181, 214, 173, 2, 232, 25, 232, 20, 122, 59, 152, 182, 224, 15, 84, 22, 102, 226, 245, 142, 20, 174, 224, 35, 85, 132, 175, 173, 253, 85, 241, 49, 9, 80, 206, 214, 113, 37, 6, 66, 151, 178, 88, 31, 161, 38, 181, 221, 11, 232, 122, 111, 149, 169, 46, 3, 198, 82, 152, 116, 246, 221, 194, 173, 108, 141, 204, 173, 216, 49, 197, 144, 66, 136, 233, 112, 230, 33, 229, 209, 250, 20, 100, 92, 207, 160, 53, 155, 98, 73, 177, 109, 94, 34, 139, 159, 80, 199, 162, 172, 77, 196, 222, 66, 168, 15, 82, 81, 171, 189, 23, 145, 124, 139, 41, 4, 81, 52, 248, 158, 232, 76, 220, 186, 25, 99>>],
    [data |-> <<122, 29, 196, 189, 222, 14, 148, 103, 37, 136, 18, 59, 12, 15, 76, 159, 203, 3, 51, 30, 177, 43, 50, 121, 172, 234, 217, 52, 205, 142, 52, 55, 1>>,
     out |-> <<181, 217, 97, 117, 90, 47, 20, 101, 38, 12, 144, 165, 121, 59, 47, 48, 233, 102, 9, 96, 37, 91, 136, 181, 79, 120, 10, 255, 80, 215, 168, 118, 24, 72, 171, 85, 78, 147, 229, 178, 110, 142, 30, 71, 217, 96, 67, 164, 219, 190, 150, 127, 81, 230, 108, 156, 218, 109, 140, 32, 152, 177, 193, 87, 121, 139, 180, 63, 230, 90, 8, 31, 83, 124, 116, 132, 120, 208, 204, 99, 140, 114, 58, 160, 109, 164, 141, 179, 10, 104, 178, 135, 251, 199, 155, 104, 99, 24, 112, 17, 231, 171, 162, 240, 239, 64, 44, 232, 125, 90, 222, 186, 44, 2, 244, 163, 200, 227, 57, 40, 81, 114, 128, 60, 214, 108, 12, 35>>],
    [data |-> <<122, 29, 196, 189, 222, 14, 148, 103, 37, 136, 18, 59, 12, 15, 76, 159, 203, 3, 51, 30, 177, 43, 50, 121, 172, 234, 217, 52, 205, 142, 52, 55, 2>>,
     out |-> <<27, 40, 61, 85, 83, 247, 198, 199, 221, 109, 113, 101, 49, 121, 192, 156, 65, 90, 55, 121, 132, 79, 148, 239, 92, 204, 3, 229, 234, 75, 92, 189, 231, 210, 8, 80, 185, 22, 157, 47, 219, 30, 136, 253, 125, 151, 29, 229, 65, 47, 195, 182, 229, 75, 130, 94, 164, 97, 88, 11, 117, 184, 25, 50, 39, 221, 42, 103, 232, 81, 89, 131, 65, 238, 61, 213, 249, 161, 137, 167, 81, 153, 137, 8, 37, 211, 255, 111, 132, 156, 106, 52, 220, 126, 167, 183, 98, 134, 248, 178, 96, 188, 114, 0, 174, 69, 174, 208, 66, 143, 63, 155, 119, 53, 138, 1, 239, 175, 206, 155, 36, 237, 4, 124, 106, 138, 9, 199>>],
    [data |-> <<124, 135, 87, 45, 151, 29, 152, 210, 73, 50, 22, 103, 0, 204, 103, 215, 137, 167, 212, 33, 157, 194, 74, 67, 108, 97, 124, 223, 88, 69, 251, 159, 0>>,
     out |-> <<246, 136, 146, 206, 146, 120, 50, 240, 162, 206, 143, 0, 76, 225, 3, 164, 32, 213, 20, 145, 48, 84, 79, 16, 166, 65, 78, 205, 149, 26, 39, 131, 207, 90, 131, 224, 183, 182, 45, 62, 77, 114, 40, 246, 252, 56, 96, 218, 157, 97, 63, 8, 115, 47, 52, 134, 154, 85, 180, 102, 194, 141, 195, 169, 33, 74, 84, 80, 196, 20, 117, 62, 15, 194, 41, 200, 65, 206, 111, 225, 23, 249, 85, 207, 230, 155, 14, 29, 253, 80, 224, 134, 206, 28, 186, 144, 3, 135, 150, 102, 87, 63, 231, 181, 119, 39, 235, 61, 220, 86, 140, 9, 81, 11, 7, 25, 182, 158, 49, 48, 134, 224, 252, 216, 71, 168, 212, 255>>],
    [data |-> <<124, 135, 87, 45, 151, 29, 152, 210, 73, 50, 22, 103, 0, 204, 103, 215, 137, 167, 212, 33, 157, 194, 74, 67, 108, 97, 124, 223, 88, 69, 251, 159, 1>>,
     out |-> <<63, 20, 1, 163, 128, 35, 172, 203, 156, 135, 228, 138, 251, 91, 26, 228, 221, 17, 70, 249, 78, 211, 254, 114, 166, 118, 13, 104, 240, 67, 136, 20, 102, 239, 95, 32, 8, 3, 176, 139, 242, 147, 187, 86, 16, 217, 8, 110, 192, 220, 27, 232, 87, 151, 232, 116, 145, 85, 96, 132, 246, 110, 116, 240, 43, 112, 115, 18, 230, 41, 73, 17, 197, 201, 15, 181, 61, 120, 184, 12, 110, 220, 205, 38, 70, 230, 206, 145, 231, 94, 120, 154, 220, 103, 183, 62, 87, 3, 31, 46, 131, 111, 164, 251, 109, 74, 79, 153, 250, 205, 216, 150, 241, 191, 232, 176, 80, 102, 22, 56, 200, 31, 102, 145, 127, 234, 130, 78>>],
    [data |-> <<124, 135, 87, 45, 151, 29, 152, 210, 73, 50, 22, 103, 0, 204, 103, 215, 137, 167, 212, 33, 157, 194, 74, 67, 108, 97, 124, 223, 88, 69, 251, 159, 2>>,
     out |-> <<147, 120, 169, 218, 64, 70, 118, 111, 49, 93, 216, 193, 158, 11, 90, 243, 86, 134, 3, 252, 37, 250, 246, 97, 12, 143, 138, 92, 222, 237, 24, 221, 100, 68, 170, 177, 202, 15, 80, 46, 153, 210, 250, 4, 128, 14, 105, 124, 153, 123, 252, 105, 38, 184, 163, 240, 200, 13, 26, 11, 91, 102, 143, 85, 248, 230, 202, 54, 173, 3, 17, 144, 65, 142, 13, 166, 54, 203, 242, 218, 45, 43, 30, 136, 241, 248, 100, 59, 98, 234, 227, 5, 35, 136, 180, 54, 82, 199, 122, 89, 117, 77, 56, 32, 69, 229, 86, 16, 201, 189, 80, 75, 152, 93, 52, 15, 129, 129, 31, 148, 134, 46, 101, 166, 124, 173, 65, 55>>],
    [data |-> <<132, 227, 226, 141, 202, 236, 111, 24, 249, 72, 216, 203, 234, 130, 36, 131, 116, 245, 93, 209, 20, 116, 226, 100, 190, 161, 104, 135, 94, 230, 232, 236, 0>>,
     out |-> <<66, 214, 175, 37, 39, 232, 225, 167, 153, 94, 0, 35, 32, 153, 180, 62, 64, 18, 81, 235, 65, 3, 104, 118, 202, 234, 210, 2, 254, 207, 207, 244, 78, 133, 36, 232, 8, 185, 69, 40, 112, 73, 88, 219, 160, 139, 229, 196, 224, 21, 224, 31, 227, 38, 8, 25, 28, 171, 102, 3, 223, 233, 10, 220, 112, 143, 69, 2, 64, 114, 192, 95, 252, 254, 179, 32, 33, 39, 122, 236, 59, 176, 23, 31, 102, 143, 57, 104, 151, 143, 43, 255, 214, 38, 250, 80, 208, 73, 117, 158, 75, 74, 63, 101, 248, 204, 194, 84, 83, 169, 242, 22, 17, 75, 167, 152, 218, 24, 130, 16, 227, 219, 43, 233, 178, 76, 177, 147>>],
    [data |-> <<132, 227, 226, 141, 202, 236, 111, 24, 249, 72, 216, 203, 234, 130, 36, 131, 116, 245, 93, 209, 20, 116, 226, 100, 190, 161, 104, 135, 94, 230, 232, 236, 1>>,
     out |-> <<34, 139, 127, 237, 53, 135, 159, 142, 159, 123, 66, 191, 72, 19, 66, 141, 220, 167, 129, 242, 81, 21, 170, 158, 138, 182, 192, 198, 83, 249, 66, 102, 208, 174, 231, 229, 232, 148, 217, 147, 156, 147, 138, 211, 159, 63, 135, 168, 92, 29, 211, 235, 51, 158, 87, 34, 74, 134, 179, 222, 42, 91, 61, 143, 95, 24, 13, 13, 47, 47, 202, 15, 159, 255, 156, 146, 213, 200, 109, 10, 148, 75, 231, 26, 102, 138, 126, 9, 99, 185, 245, 213, 141, 240, 47, 18, 20, 63, 145, 170, 17, 119, 174, 152, 44, 116, 63, 230, 196, 59, 239, 105, 247, 33, 30, 182, 225, 209, 86, 46, 35, 224, 120, 171, 21, 220, 213, 212>>],
    [data |-> <<132, 227, 226, 141, 202, 236, 111, 24, 249, 72, 216, 203, 234, 130, 36, 131, 116, 245, 93, 209, 20, 116, 226, 100, 190, 161, 104, 135, 94, 230, 232, 236, 2>>,
     out |-> <<164, 229, 61, 75, 21, 206, 203, 103, 2, 192, 49, 40, 243, 35, 231, 20, 174, 201, 122, 42, 67, 212, 131, 217, 137, 36, 124, 78, 245, 129, 233, 218, 20, 35, 45, 54, 38, 177, 120, 82, 202, 129, 28, 228, 95, 42, 4, 149, 235, 225, 11, 47, 89, 183, 76, 253, 8, 54, 253, 91, 11, 214, 161, 80, 190, 250, 200, 44, 53, 15, 9, 19, 74, 111, 126, 125, 118, 26, 56, 88, 0, 53, 77, 180, 132, 7, 65, 42, 111, 73, 74, 193, 213, 48, 207, 9, 33, 240, 106, 145, 62, 227, 138, 101, 64, 79, 32, 201, 18, 211, 222, 109, 84, 242, 239, 8, 33, 47, 76, 66, 29, 10, 147, 33, 61, 163, 216, 221>>],
    [data |-> <<176, 50, 169, 157, 106, 123, 71, 160, 166, 127, 202, 119, 68, 74, 148, 175, 221, 77, 230, 76, 155, 201, 137, 180, 243, 23, 212, 164, 193, 224, 45, 90, 0>>,
     out |-> <<52, 1, 12, 202, 110, 232, 135, 192, 190, 125, 43, 195, 91, 192, 8, 20, 240, 9, 164, 65, 87, 9, 170, 237, 104, 151, 157, 229, 30, 16, 217, 73, 55, 184, 168, 224, 108, 115, 158, 124, 190, 123, 77, 117, 126, 97, 237, 235, 118, 212, 88, 124, 194, 53, 119, 38, 146, 145, 33, 180, 230, 184, 102, 217, 105, 108, 93, 28, 153, 112, 170, 151, 239, 239, 97, 47, 73, 150, 46, 246, 241, 120, 189, 191, 173, 174, 183, 249, 102, 104, 101, 177, 45, 103, 174, 33, 204, 143, 10, 108, 6, 150, 5, 203, 83, 168, 2, 149, 176, 186, 137, 25, 192, 182, 167, 205, 255, 160, 136, 71, 78, 177, 146, 33, 42, 199, 106, 196>>],
    [data |-> <<176, 50, 169, 157, 106, 123, 71, 160, 166, 127, 202, 119, 68, 74, 148, 175, 221, 77, 230, 76, 155, 201, 137, 180, 243, 23, 212, 164, 193, 224, 45, 90, 1>>,
     out |-> <<29, 8, 111, 24, 189, 17, 10, 153, 240, 22, 88, 204, 97, 210, 11, 241, 185, 205, 46, 205, 66, 41, 189, 93, 106, 28, 172, 156, 94, 210, 26, 136, 233, 147, 170, 76, 127, 188, 160, 26, 12, 155, 136, 210, 56, 151, 33, 135, 94, 228, 221, 38, 207, 88, 178, 254, 230, 200, 0, 138, 208, 205, 192, 137, 248, 212, 47, 223, 68, 0, 207, 152, 89, 7, 210, 248, 40, 31, 212, 114, 228, 228, 164, 179, 128, 46, 153, 143, 166, 41, 252, 144, 27, 200, 143, 136, 47, 194, 230, 75, 134, 63, 112, 40, 97, 172, 56, 137, 241, 133, 60, 76, 67, 95, 215, 169, 9, 32, 212, 68, 142, 57, 15, 35, 2, 47, 92, 226>>],
    [data |-> <<176, 50, 169, 157, 106, 123, 71, 160, 166, 127, 202, 119, 68, 74, 148, 175, 221, 77, 230, 76, 155, 201, 137, 180, 243, 23, 212, 164, 193, 224, 45, 90, 2>>,
     out |-> <<155, 224, 163, 90, 96, 204, 19, 72, 28, 161, 34, 14, 199, 16, 201, 153, 168, 210, 212, 181, 230, 0, 7, 240, 151, 126, 206, 222, 94, 87, 153, 45, 17, 108, 61, 30, 208, 84, 86, 40, 181, 76, 55, 111, 31, 26, 36, 136, 166, 20, 19, 142, 139, 79, 160, 72, 117, 232, 215, 89, 22, 10, 112, 228, 230, 20, 208, 208, 130, 55, 35, 236, 150, 100, 16, 162, 55, 112, 15, 223, 66, 24, 233, 48, 160, 36, 155, 115, 87, 236, 198, 249, 167, 208, 125, 139, 248, 166, 202, 67, 131, 224, 134, 55, 5, 55, 142, 166, 118, 22, 160, 190, 245, 19, 163, 247, 93, 176, 221, 115, 26, 190, 50, 169, 201, 183, 249, 185>>],
    [data |-> <<241, 116, 94, 209, 225, 40, 29, 246, 43, 139, 228, 7, 238, 60, 170, 150, 179, 166, 68, 78, 162, 87, 169, 6, 126, 60, 30, 47, 45, 254, 111, 65, 0>>,
     out |-> <<100, 190, 37, 23, 34, 24, 27, 37, 6, 38, 91, 43, 251, 215, 248, 12, 190, 248, 125, 57, 99, 232, 185, 123, 173, 175, 204, 87, 23, 173, 111, 24, 92, 196, 22, 247, 204, 240, 138, 204, 53, 209, 65, 59, 153, 93, 44, 85, 178, 213, 218, 227, 119, 238, 180, 187, 71, 244, 108, 152, 80, 139, 47, 103, 226, 199, 114, 133, 199, 235, 180, 204, 117, 64, 239, 207, 120, 158, 177, 39, 218, 82, 179, 129, 96, 229, 70, 205, 47, 238, 144, 60, 212, 230, 1, 135, 117, 3, 158, 240, 202, 205, 191, 53, 191, 133, 107, 38, 165, 205, 85, 141, 84, 38, 186, 35, 190, 236, 229, 249, 130, 168, 136, 214, 121, 95, 248, 202>>],
    [data |-> <<241, 116, 94, 209, 225, 40, 29, 246, 43, 139, 228, 7, 238, 60, 170, 150, 179, 166, 68, 78, 162, 87, 169, 6, 126, 60, 30, 47, 45, 254, 111, 65, 1>>,
     out |-> <<97, 177, 144, 122, 155, 1, 233, 210, 214, 119, 67, 135, 229, 129, 93, 68, 175, 216, 123, 231, 16, 92, 89, 252, 0, 244, 100, 228, 159, 52, 112, 52, 249, 120, 156, 56, 113, 24, 8, 232, 230, 121, 245, 237, 133, 66, 235, 193, 221, 181, 114, 241, 251, 146, 186, 65, 169, 13, 248, 165, 246, 225, 127, 213, 184, 231, 255, 232, 74, 170, 133, 74, 73, 190, 184, 33, 221, 141, 184, 4, 90, 200, 46, 221, 10, 245, 116, 198, 103, 137, 28, 87, 114, 81, 93, 68, 35, 11, 175, 80, 182, 167, 206, 120, 252, 59, 102, 94, 185, 247, 104, 241, 40, 178, 52, 229, 185, 224, 163, 21, 82, 210, 173, 100, 223, 222, 235, 122>>],
    [data |-> <<241, 116, 94, 209, 225, 40, 29, 246, 43, 139, 228, 7, 238, 60, 170, 150, 179, 166, 68, 78, 162, 87, 169, 6, 126, 60, 30, 47, 45, 254, 111, 65, 2>>,
     out |-> <<50, 87, 210, 95, 226, 58, 173, 38, 146, 16, 67, 21, 72, 220, 244, 150, 151, 180, 113, 203, 103, 182, 150, 149, 94, 192, 92, 213, 147, 45, 181, 13, 57, 120, 131, 112, 124, 169, 21, 137, 163, 94, 193, 150, 53, 63, 10, 52, 158, 242, 193, 45, 43, 107, 127, 58, 146, 153, 252, 195, 187, 221, 165, 105, 115, 198, 15, 180, 202, 182, 255, 180, 170, 207, 130, 217, 202, 39, 207, 245, 91, 223, 164, 252, 82, 148, 128, 171, 172, 192, 189, 66, 144, 92, 5, 10, 3, 63, 79, 149, 33, 210, 11, 40, 68, 199, 135, 49, 191, 106, 150, 46, 123, 47, 141, 206, 95, 44, 117, 172, 139, 249, 14, 53, 159, 113, 246, 227>>],
    [data |-> <<202, 159, 156, 0, 123, 120, 55, 100, 14, 219, 158, 48, 147, 71, 57, 174, 112, 251, 215, 113, 196, 227, 1, 225, 160, 99, 194, 92, 138, 223, 141, 222, 0>>,
     out |-> <<110, 194, 232, 119, 241, 16, 224, 247, 116, 67, 142, 227, 112, 124, 215, 232, 142, 163, 6, 150, 88, 241, 101, 58, 208, 210, 40, 145, 42, 125, 183, 54, 182, 136, 36, 160, 100, 163, 202, 51, 16, 181, 92, 120, 78, 114, 220, 211, 151, 35, 20, 45, 177, 16, 220, 137, 193, 202, 7, 126, 130, 167, 236, 74, 62, 233, 184, 178, 163, 123, 53, 99, 110, 237, 97, 24, 228, 53, 217, 7, 71, 88, 215, 58, 157, 105, 193, 244, 16, 175, 43, 181, 52, 100, 13, 79, 175, 237, 14, 249, 253, 23, 174, 46, 196, 112, 137, 234, 149, 92, 78, 182, 28, 241, 225, 118, 177, 164, 115, 237, 209, 230, 93, 79, 125, 180, 160, 87>>],
    [data |-> <<202, 159, 156, 0, 123, 120, 55, 100, 14, 219, 158, 48, 147, 71, 57, 174, 112, 251, 215, 113, 196, 227, 1, 225, 160, 99, 194, 92, 138, 223, 141, 222, 1>>,
     out |-> <<131, 254, 136, 66, 171, 210, 109, 82, 20, 7, 124, 202, 167, 52, 82, 1, 189, 239, 31, 119, 150, 30, 125, 198, 74, 238, 38, 30, 47, 33, 190, 112, 3, 47, 88, 163, 242, 220, 184, 92, 81, 124, 233, 205, 100, 188, 161, 200, 16, 125, 126, 17, 182, 115, 239, 236, 160, 240, 213, 6, 6, 105, 9, 160, 88, 182, 43, 139, 212, 240, 22, 39, 51, 187, 236, 71, 132, 21, 199, 114, 248, 227, 45, 112, 63, 95, 146, 188, 156, 209, 138, 143, 68, 39, 102, 146, 18, 84, 37, 202, 43, 78, 145, 124, 105, 241, 255, 249, 176, 197, 125, 170, 132, 62, 67, 24, 39, 212, 20, 158, 137, 248, 105, 58, 47, 27, 183, 252>>],
    [data |-> <<202, 159, 156, 0, 123, 120, 55, 100, 14, 219, 158, 48, 147, 71, 57, 174, 112, 251, 215, 113, 196, 227, 1, 225, 160, 99, 194, 92, 138, 223, 141, 222, 2>>,
     out |-> <<255, 88, 203, 89, 127, 248, 94, 17, 193, 248, 168, 254, 179, 143, 250, 177, 250, 135, 159, 98, 184, 86, 75, 55, 104, 136, 63, 81, 254, 177, 224, 6, 216, 15, 83, 228, 171, 52, 33, 106, 42, 22, 186, 68, 209, 230, 230, 101, 146, 150, 114, 149, 189, 240, 204, 10, 51, 160, 77, 42, 95, 189, 161, 156, 177, 91, 243, 108, 156, 213, 157, 55, 64, 106, 174, 221, 251, 105, 76, 25, 178, 44, 248, 158, 85, 42, 86, 64, 192, 47, 57, 146, 144, 247, 23, 82, 79, 25, 88, 198, 15, 172, 160, 40, 244, 192, 236, 93, 139, 64, 35, 59, 82, 30, 119, 228, 59, 60, 24, 209, 97, 121, 81, 231, 47, 90, 117, 214>>],
    [data |-> <<152, 198, 34, 71, 191, 192, 148, 180, 105, 139, 184, 20, 192, 161, 12, 228, 147, 98, 43, 148, 193, 183, 211, 235, 92, 177, 253, 237, 173, 174, 196, 191, 0>>,
     out |-> <<194, 134, 119, 61, 30, 202, 161, 65, 127, 101, 192, 112, 100, 31, 73, 228, 159, 163, 56, 244, 240, 51, 201, 9, 244, 170, 29, 100, 92, 0, 214, 59, 37, 219, 75, 203, 171, 217, 214, 207, 246, 2, 140, 43, 238, 92, 122, 129, 162, 147, 12, 203, 177, 83, 213, 94, 32, 58, 221, 219, 163, 69, 137, 140, 129, 67, 58, 19, 236, 59, 82, 153, 26, 30, 92, 110, 37, 185, 30, 88, 121, 106, 71, 35, 46, 68, 96, 45, 44, 242, 179, 41, 0, 49, 9, 109, 92, 30, 66, 119, 147, 96, 16, 0, 120, 85, 120, 104, 2, 239, 178, 156, 107, 6, 252, 55, 59, 45, 32, 97, 81, 151, 227, 8, 236, 226, 7, 252>>],
    [data |-> <<152, 198, 34, 71, 191, 192, 148, 180, 105, 139, 184, 20, 192, 161, 12, 228, 147, 98, 43, 148, 193, 183, 211, 235, 92, 177, 253, 237, 173, 174, 196, 191, 1>>,
     out |-> <<23, 39, 202, 42, 68, 33, 94, 17, 76, 219, 99, 85, 31, 34, 250, 165, 19, 134, 84, 160, 17, 86, 200, 215, 53, 81, 68, 73, 241, 168, 34, 31, 86, 131, 119, 10, 16, 178, 36, 27, 75, 32, 117, 225, 203, 55, 19, 33, 124, 242, 149, 64, 43, 37, 213, 186, 194, 66, 75, 184, 107, 222, 33, 140, 12, 143, 66, 142, 14, 22, 87, 255, 201, 187, 152, 239, 30, 194, 10, 129, 124, 238, 123, 56, 157, 111, 18, 158, 208, 121, 253, 63, 124, 100, 232, 81, 253, 85, 243, 55, 153, 193, 39, 86, 241, 255, 178, 80, 91, 36, 55, 160, 207, 237, 202, 24, 51, 37, 14, 219, 245, 107, 178, 83, 111, 90, 116, 133>>],
    [data |-> <<152, 198, 34, 71, 191, 192, 148, 180, 105, 139, 184, 20, 192, 161, 12, 228, 147, 98, 43, 148, 193, 183, 211, 235, 92, 177, 253, 237, 173, 174, 196, 191, 2>>,
     out |-> <<76, 107, 131, 71, 117, 96, 196, 202, 194, 47, 251, 69, 193, 125, 96, 156, 17, 187, 242, 217, 238, 204, 18, 246, 137, 2, 18, 153, 4, 121, 168, 126, 104, 99, 238, 82, 12, 194, 195, 84, 130, 34, 49, 1, 171, 145, 95, 52, 206, 163, 32, 14, 125, 203, 176, 230, 5, 137, 110, 61, 131, 64, 146, 10, 191, 11, 56, 12, 231, 226, 134, 244, 160, 42, 111, 121, 68, 31, 36, 180, 108, 40, 35, 42, 199, 172, 13, 207, 227, 97, 38, 106, 236, 242, 157, 1, 125, 143, 194, 1, 204, 85, 165, 87, 74, 139, 122, 204, 98, 194, 173, 229, 83, 92, 187, 220, 87, 38, 45, 68, 227, 249, 154, 7, 182, 104, 61, 129>>],
    [data |-> <<39, 104, 111, 25, 152, 152, 243, 15, 164, 153, 86, 206, 211, 221, 175, 142, 213, 246, 87, 93, 166, 133, 186, 224, 17, 20, 18, 6, 22, 8, 248, 148, 0>>,
     out |-> <<45, 188, 212, 134, 239, 119, 77, 183, 244, 221, 126, 88, 210, 61, 1, 242, 62, 244, 119, 87, 35, 19, 239, 118, 200, 225, 120, 244, 62, 28, 201, 155, 58, 82, 189, 21, 100, 103, 58, 146, 188, 234, 95, 13, 189, 153, 78, 236, 83, 222, 218, 77, 217, 185, 149, 119, 25, 136, 63, 112, 134, 239, 134, 101, 169, 248, 135, 121, 160, 115, 50, 151, 45, 239, 130, 75, 169, 242, 182, 212, 76, 254, 42, 121, 52, 18, 105, 191, 94, 245, 183, 38, 37, 162, 187, 246, 62, 131, 46, 55, 125, 26, 61, 7, 100, 118, 182, 49, 246, 172, 18, 109, 161, 85, 232, 124, 152, 154, 61, 169, 37, 132, 73, 189, 109, 102, 57, 218>>],
    [data |-> <<39, 104, 111, 25, 152, 152, 243, 15, 164, 153, 86, 206, 211, 221, 175, 142, 213, 246, 87, 93, 166, 133, 186, 224, 17, 20, 18, 6, 22, 8, 248, 148, 1>>,
     out |-> <<23, 129, 4, 188, 150, 60, 214, 90, 26, 161, 218, 181, 4, 28, 173, 226, 79, 66, 2, 70, 43, 190, 34, 250, 2, 77, 26, 61, 13, 146, 70, 111, 27, 235, 187, 94, 223, 192, 18, 207, 80, 143, 218, 11, 199, 131, 212, 78, 174, 47, 18, 96, 211, 59, 142, 229, 26, 12, 76, 219, 207, 50, 162, 10, 113, 118, 187, 94, 161, 73, 229, 50, 25, 192, 249, 143, 76, 147, 148, 63, 72, 141, 187, 223, 224, 10, 177, 152, 139, 163, 105, 78, 148, 135, 22, 153, 104, 164, 80, 173, 130, 200, 36, 206, 106, 44, 171, 108, 31, 79, 242, 74, 232, 212, 118, 127, 53, 65, 137, 175, 147, 177, 160, 36, 78, 85, 72, 240>>],
    [data |-> <<39, 104, 111, 25, 152, 152, 243, 15, 164, 153, 86, 206, 211, 221, 175, 142, 213, 246, 87, 93, 166, 133, 186, 224, 17, 20, 18, 6, 22, 8, 248, 148, 2>>,
     out |-> <<224, 94, 129, 45, 0, 146, 145, 65, 241, 186, 129, 215, 132, 9, 247, 189, 126, 58, 61, 216, 245, 127, 238, 200, 3, 141, 207, 23, 238, 142, 40, 237, 124, 27, 154, 71, 202, 243, 239, 20, 77, 225, 59, 92, 42, 187, 80, 2, 89, 91, 30, 24, 100, 188, 93, 71, 163, 24, 97, 190, 116, 156, 157, 73, 219, 229, 149, 192, 163, 27, 97, 241, 151, 122, 67, 66, 158, 216, 29, 60, 123, 71, 116, 62, 74, 170, 185, 122, 91, 147, 255, 254, 133, 112, 76, 121, 120, 65, 180, 252, 127, 104, 238, 8, 114, 67, 79, 120, 140, 182, 151, 80, 110, 196, 171, 241, 80, 198, 99, 221, 178, 202, 76, 246, 33, 25, 139, 54>>],
    [data |-> <<225, 161, 221, 108, 126, 69, 189, 245, 121, 8, 55, 79, 82, 115, 77, 241, 29, 201, 221, 9, 1, 217, 60, 187, 172, 53, 216, 61, 216, 241, 118, 210, 0>>,
     out |-> <<171, 178, 52, 84, 54, 250, 171, 11, 151, 243, 240, 70, 74, 81, 167, 202, 209, 172, 24, 235, 57, 11, 160, 80, 138, 72, 57, 153, 233, 114, 243, 22, 240, 208, 181, 201, 118, 26, 186, 151, 119, 136, 239, 159, 135, 249, 51, 91, 128, 97, 47, 247, 219, 193, 18, 98, 31, 189, 199, 183, 240, 239, 204, 112, 52, 209, 79, 226, 21, 68, 73, 236, 101, 184, 54, 169, 88, 219, 142, 243, 48, 95, 2, 25, 135, 3, 7, 69, 194, 79, 237, 125, 123, 168, 225, 197, 86, 194, 136, 232, 167, 16, 1, 93, 242, 213, 124, 167, 16, 40, 155, 73, 171, 38, 135, 209, 33, 148, 24, 171, 73, 121, 37, 22, 203, 172, 201, 238>>],
    [data |-> <<225, 161, 221, 108, 126, 69, 189, 245, 121, 8, 55, 79, 82, 115, 77, 241, 29, 201, 221, 9, 1, 217, 60, 187, 172, 53, 216, 61, 216, 241, 118, 210, 1>>,
     out |-> <<31, 2, 185, 235, 233, 46, 67, 246, 238, 255, 158, 130, 120, 120, 243, 79, 181, 243, 41, 197, 199, 63, 7, 209, 25, 35, 248, 185, 219, 30, 60, 76, 60, 31, 37, 81, 91, 224, 204, 181, 75, 202, 123, 145, 204, 172, 116, 166, 17, 3, 99, 72, 157, 81, 208, 155, 51, 209, 133, 18, 157, 70, 195, 122, 98, 120, 95, 196, 66, 193, 39, 158, 39, 68, 216, 141, 111, 178, 235, 206, 78, 251, 203, 153, 172, 86, 131, 168, 115, 249, 177, 14, 6, 7, 33, 91, 231, 81, 61, 167, 138, 79, 71, 138, 178, 255, 164, 63, 121, 23, 63, 115, 195, 254, 188, 100, 87, 102, 31, 123, 162, 177, 229, 204, 226, 63, 83, 126>>],
    [data |-> <<225, 161, 221, 108, 126, 69, 189, 245, 121, 8, 55, 79, 82, 115, 77, 241, 29, 201, 221, 9, 1, 217, 60, 187, 172, 53, 216, 61, 216, 241, 118, 210, 2>>,
     out |-> <<20, 183, 117, 252, 190, 65, 218, 16, 161, 218, 216, 200, 113, 137, 22, 237, 17, 252, 63, 145, 71, 67, 16, 181, 120, 33, 13, 31, 121, 155, 132, 30, 61, 5, 108, 245, 87, 206, 248, 42, 72, 11, 62, 33, 121, 60, 160, 221, 31, 239, 162, 137, 84, 219, 173, 26, 88, 34, 31, 93, 159, 127, 0, 11, 252, 209, 76, 253, 73, 203, 217, 165, 138, 186, 32, 94, 102, 173, 201, 75, 74, 242, 20, 215, 120, 244, 37, 228, 137, 60, 116, 199, 195, 252, 222, 170, 59, 123, 217, 56, 127, 199, 242, 189, 103, 116, 112, 103, 91, 172, 111, 221, 90, 181, 19, 149, 61, 144, 119, 23, 163, 166, 16, 219, 64, 79, 3, 207>>],
    [data |-> <<188, 41, 215, 48, 218, 211, 182, 183, 127, 19, 202, 175, 158, 127, 65, 53, 61, 125, 185, 235, 133, 143, 52, 92, 230, 103, 229, 25, 122, 57, 105, 100, 0>>,
     out |-> <<89, 218, 59, 201, 162, 106, 236, 44, 191, 184, 243, 29, 149, 241, 49, 80, 89, 11, 4, 129, 133, 57, 15, 36, 169, 154, 126, 191, 144, 49, 229, 207, 13, 108, 65, 179, 146, 136, 181, 15, 24, 143, 113, 219, 180, 228, 234, 4, 134, 68, 83, 95, 35, 252, 6, 41, 53, 68, 246, 80, 219, 233, 84, 114, 139, 215, 183, 206, 42, 51, 14, 244, 216, 217, 20, 27, 27, 191, 133, 149, 249, 148, 225, 2, 34, 169, 196, 251, 92, 79, 129, 44, 137, 82, 183, 239, 174, 142, 174, 203, 7, 53, 184, 177, 38, 13, 93, 229, 150, 207, 1, 163, 141, 29, 199, 166, 7, 66, 6, 114, 18, 253, 119, 21, 57, 61, 71, 57>>],
    [data |-> <<188, 41, 215, 48, 218, 211, 182, 183, 127, 19, 202, 175, 158, 127, 65, 53, 61, 125, 185, 235, 133, 143, 52, 92, 230, 103, 229, 25, 122, 57, 105, 100, 1>>,
     out |-> <<13, 99, 72, 255, 214, 182, 56, 204, 2, 165, 177, 146, 133, 211, 25, 216, 151, 1, 115, 166, 178, 93, 126, 11, 173, 23, 65, 49, 167, 223, 192, 116, 48, 95, 32, 41, 14, 206, 98, 38, 73, 66, 13, 186, 176, 133, 195, 62, 71, 20, 150, 131, 67, 165, 43, 242, 217, 174, 53, 138, 205, 95, 228, 142, 190, 241, 63, 168, 6, 133, 116, 137, 145, 150, 217, 193, 221, 231, 169, 103, 109, 43, 27, 194, 43, 151, 53, 58, 27, 225, 65, 101, 85, 254, 235, 175, 144, 18, 157, 195, 139, 158, 61, 43, 89, 225, 243, 46, 140, 218, 74, 32, 228, 8, 168, 65, 140, 30, 98, 193, 120, 14, 0, 23, 193, 1, 169, 95>>],
    [data |-> <<188, 41, 215, 48, 218, 211, 182, 183, 127, 19, 202, 175, 158, 127, 65, 53, 61, 125, 185, 235, 133, 143, 52, 92, 230, 103, 229, 25, 122, 57, 105, 100, 2>>,
     out |-> <<184, 45, 219, 8, 181, 177, 186, 205, 176, 146, 101, 64, 40, 250, 129, 48, 176, 170, 72, 100, 55, 16, 43, 207, 22, 44, 31, 117, 181, 121, 66, 113, 119, 185, 146, 38, 170, 88, 226, 221, 35, 173, 86, 59, 135, 149, 29, 214, 240, 65, 146, 201, 204, 23, 162, 202, 179, 30, 109, 229, 210, 27, 113, 209, 48, 58, 49, 160, 98, 42, 23, 154, 66, 134, 164, 220, 53, 132, 215, 127, 114, 202, 121, 49, 137, 9, 156, 195, 44, 124, 41, 156, 86, 181, 170, 49, 75, 211, 154, 88, 220, 41, 224, 69, 165, 151, 69, 169, 7, 159, 52, 14, 52, 227, 197, 11, 48, 165, 193, 49, 33, 38, 177, 176, 137, 47, 255, 51>>],
    [data |-> <<30, 197, 3, 218, 25, 65, 54, 254, 226, 5, 125, 26, 167, 65, 131, 42, 34, 116, 184, 106, 13, 89, 39, 191, 132, 89, 86, 72, 209, 23, 112, 184, 0>>,
     out |-> <<159, 37, 147, 191, 167, 204, 107, 210, 248, 62, 5, 3, 215, 213, 164, 182, 33, 217, 209, 185, 110, 9, 42, 147, 228, 218, 178, 18, 235, 216, 246, 7, 167, 68, 194, 131, 164, 124, 104, 71, 128, 18, 184, 248, 24, 169, 237, 76, 58, 149, 255, 252, 138, 107, 140, 216, 87, 49, 38, 168, 6, 237, 52, 251, 119, 132, 41, 102, 226, 102, 29, 142, 84, 62, 148, 247, 192, 217, 186, 2, 79, 109, 88, 131, 234, 245, 160, 25, 126, 107, 253, 226, 226, 178, 5, 204, 101, 98, 186, 234, 195, 198, 196, 119, 228, 249, 184, 65, 214, 76, 69, 174, 91, 224, 151, 20, 123, 120, 244, 141, 170, 221, 245, 13, 250, 99, 188, 196>>],
    [data |-> <<30, 197, 3, 218, 25, 65, 54, 254, 226, 5, 125, 26, 167, 65, 131, 42, 34, 116, 184, 106, 13, 89, 39, 191, 132, 89, 86, 72, 209, 23, 112, 184, 1>>,
     out |-> <<107, 166, 133, 70, 56, 143, 30, 27, 235, 80, 135, 164, 132, 253, 216, 115, 145, 81, 118, 55, 40, 95, 171, 152, 8, 23, 74, 7, 157, 157, 140, 19, 233, 114, 35, 200, 35, 206, 214, 81, 15, 231, 181, 87, 18, 254, 166, 161, 59, 115, 40, 30, 82, 62, 41, 34, 140, 174, 1, 252, 206, 95, 33, 236, 251, 171, 46, 248, 26, 11, 216, 23, 136, 140, 249, 112, 87, 170, 211, 243, 141, 5, 36, 158, 174, 249, 1, 21, 126, 197, 216, 178, 139, 185, 60, 64, 149, 159, 184, 170, 66, 219, 234, 244, 62, 174, 126, 0, 138, 198, 159, 226, 218, 144, 213, 65, 226, 188, 63, 90, 166, 82, 99, 187, 164, 144, 182, 166>>],
    [data |-> <<30, 197, 3, 218, 25, 65, 54, 254, 226, 5, 125, 26, 167, 65, 131, 42, 34, 116, 184, 106, 13, 89, 39, 191, 132, 89, 86, 72, 209, 23, 112, 184, 2>>,
     out |-> <<37, 70, 87, 243, 83, 253, 245, 33, 71, 241, 123, 91, 147, 32, 18, 104, 37, 85, 101, 253, 70, 219, 161, 150, 123, 151, 197, 166, 113, 172, 90, 23, 31, 225, 87, 85, 76, 110, 184, 42, 197, 67, 201, 1, 48, 229, 78, 141, 72, 173, 99, 45, 250, 217, 161, 181, 203, 55, 125, 166, 114, 247, 84, 42, 156, 9, 70, 91, 125, 241, 105, 173, 106, 81, 222, 99, 42, 151, 207, 78, 221, 28, 254, 173, 227, 123, 149, 214, 247, 199, 6, 215, 66, 117, 180, 25, 157, 25, 46, 176, 170, 244, 173, 138, 41, 174, 209, 19, 135, 1, 206, 186, 226, 203, 64, 88, 165, 221, 41, 229, 58, 182, 158, 247, 132, 143, 190, 17>>],
    [data |-> <<122, 61, 56, 192, 88, 17, 138, 221, 245, 136, 97, 170, 125, 77, 198, 94, 235, 138, 224, 6, 255, 70, 179, 97, 57, 27, 7, 100, 22, 108, 245, 13, 0>>,
     out |-> <<97, 37, 13, 14, 159, 1, 34, 38, 17, 236, 236, 212, 98, 128, 193, 167, 170, 2, 231, 251, 238, 33, 74, 35, 76, 228, 49, 143, 184, 111, 102, 21, 89, 173, 181, 163, 231, 148, 125, 142, 100, 64, 133, 176, 102, 54, 198, 136, 65, 232, 19, 127, 86, 119, 241, 0, 184, 195, 211, 13, 124, 15, 227, 37, 229, 125, 226, 126, 203, 45, 155, 88, 92, 94, 84, 10, 186, 46, 148, 92, 127, 36, 225, 177, 116, 35, 31, 116, 135, 167, 176, 142, 59, 10, 86, 81, 82, 67, 115, 183, 247, 109, 151, 179, 172, 70, 58, 218, 71, 109, 73, 100, 189, 93, 40, 209, 201, 99, 5, 26, 102, 94, 30, 122, 125, 4, 144, 35>>],
    [data |-> <<122, 61, 56, 192, 88, 17, 138, 221, 245, 136, 97, 170, 125, 77, 198, 94, 235, 138, 224, 6, 255, 70, 179, 97, 57, 27, 7, 100, 22, 108, 245, 13, 1>>,
     out |-> <<37, 140, 72, 134, 53, 172, 42, 117, 113, 214, 190, 96, 198, 157, 195, 51, 221, 56, 108, 38, 170, 235, 150, 118, 206, 252, 206, 89, 131, 62, 5, 192, 17, 238, 41, 49, 83, 121, 193, 125, 66, 163, 154, 185, 210, 140, 134, 37, 204, 51, 7, 132, 41, 113, 84, 241, 234, 125, 11, 110, 166, 156, 68, 52, 162, 188, 178, 13, 53, 181, 94, 236, 26, 240, 153, 228, 62, 102, 109, 232, 30, 92, 121, 245, 123, 238, 177, 166, 86, 172, 224, 90, 1, 238, 181, 124, 81, 68, 210, 1, 219, 90, 20, 116, 99, 137, 119, 37, 238, 169, 237, 85, 116, 215, 199, 75, 247, 73, 154, 157, 55, 160, 179, 239, 131, 208, 46, 31>>],
    [data |-> <<122, 61, 56, 192, 88, 17, 138, 221, 245, 136, 97, 170, 125, 77, 198, 94, 235, 138, 224, 6, 255, 70, 179, 97, 57, 27, 7, 100, 22, 108, 245, 13, 2>>,
     out |-> <<108, 206, 107, 140, 39, 117, 122, 8, 194, 185, 137, 76, 154, 132, 181, 3, 85, 147, 254, 38, 86, 161, 50, 122, 42, 8, 137, 38, 207, 159, 43, 75, 247, 38, 222, 160, 12, 87, 21, 205, 148, 110, 190, 165, 87, 29, 254, 160, 125, 66, 81, 243, 233, 244, 222, 25, 214, 136, 177, 220, 68, 48, 112, 101, 192, 58, 176, 198, 71, 229, 251, 104, 144, 213, 128, 218, 137, 66, 200, 199, 184, 237, 26, 230, 222, 236, 62, 159, 10, 3, 250, 248, 119, 217, 64, 146, 5, 54, 102, 56, 75, 123, 47, 108, 97, 161, 11, 231, 206, 16, 86, 94, 1, 103, 202, 135, 72, 56, 198, 217, 120, 36, 185, 234, 150, 159, 146, 145>>],
    [data |-> <<14, 175, 44, 247, 116, 198, 123, 110, 115, 75, 18, 226, 111, 186, 70, 138, 84, 255, 185, 9, 41, 79, 216, 28, 8, 220, 72, 32, 185, 161, 76, 54, 0>>,
     out |-> <<189, 245, 65, 66, 46, 199, 247, 218, 174, 51, 33, 222, 182, 238, 173, 144, 167, 38, 64, 197, 175, 46, 246, 152, 212, 197, 116, 211, 140, 68, 114, 40, 41, 35, 168, 17, 68, 45, 222, 175, 53, 196, 110, 230, 215, 162, 145, 154, 229, 176, 29, 25, 201, 242, 42, 3, 102, 135, 123, 100, 93, 217, 44, 171, 206, 230, 46, 69, 88, 144, 82, 205, 38, 71, 185, 100, 69, 36, 151, 221, 249, 91, 103, 202, 139, 25, 49, 68, 35, 225, 110, 89, 24, 6, 141, 146, 65, 232, 150, 158, 88, 21, 48, 228, 57, 29, 107, 63, 134, 146, 31, 6, 24, 46, 91, 238, 189, 12, 92, 70, 232, 175, 226, 146, 7, 204, 177, 54>>],
    [data |-> <<14, 175, 44, 247, 116, 198, 123, 110, 115, 75, 18, 226, 111, 186, 70, 138, 84, 255, 185, 9, 41, 79, 216, 28, 8, 220, 72, 32, 185, 161, 76, 54, 1>>,
     out |-> <<108, 129, 94, 223, 205, 78, 144, 182, 181, 56, 48, 157, 100, 52, 30, 168, 88, 56, 57, 220, 166, 67, 164, 187, 116, 166, 140, 154, 199, 92, 151, 241, 187, 180, 189, 216, 152, 184, 55, 6, 52, 96, 52, 119, 202, 10, 223, 97, 100, 11, 146, 177, 108, 99, 210, 238, 152, 28, 99, 194, 111, 37, 168, 101, 52, 252, 189, 70, 54, 93, 146, 26, 236, 34, 142, 243, 50, 15, 90, 64, 112, 253, 137, 70, 167, 128, 11, 255, 142, 102, 136, 100, 253, 133, 30, 125, 100, 193, 121, 20, 216, 198, 193, 172, 80, 0, 215, 139, 3, 13, 177, 132, 169, 79, 74, 175, 168, 10, 153, 190, 176, 209, 23, 48, 14, 37, 97, 105>>],
    [data |-> <<14, 175, 44, 247, 116, 198, 123, 110, 115, 75, 18, 226, 111, 186, 70, 138, 84, 255, 185, 9, 41, 79, 216, 28, 8, 220, 72, 32, 185, 161, 76, 54, 2>>,
     out |-> <<232, 18, 102, 122, 183, 154, 68, 204, 57, 169, 231, 78, 91, 14, 18, 19, 72, 173, 225, 26, 150, 148, 98, 50, 201, 219, 237, 154, 173, 200, 66, 252, 25, 2, 39, 49, 139, 106, 212, 215, 182, 25, 21, 107, 215, 149, 115, 144, 180, 74, 248, 196, 126, 158, 221, 185, 122, 129, 158, 185, 124, 222, 176, 207, 102, 83, 92, 16, 166, 211, 153, 210, 75, 6, 187, 123, 138, 1, 145, 52, 49, 217, 65, 99, 152, 101, 174, 91, 128, 17, 189, 55, 82, 252, 16, 129, 22, 12, 178, 174, 2, 172, 181, 182, 196, 230, 36, 241, 159, 246, 61, 217, 82, 105, 155, 98, 157, 203, 7, 27, 12, 40, 140, 93, 184, 5, 15, 75>>],
    [data |-> <<107, 34, 80, 203, 135, 147, 63, 3, 151, 87, 17, 95, 65, 122, 247, 111, 71, 172, 43, 62, 21, 60, 215, 223, 162, 112, 16, 213, 144, 35, 24, 178, 0>>,
     out |-> <<237, 97, 48, 100, 50, 113, 147, 160, 37, 217, 190, 65, 41, 87, 195, 141, 219, 240, 121, 56, 10, 245, 183, 108, 54, 214, 166, 86, 195, 180, 187, 205, 60, 17, 248, 74, 157, 51, 52, 137, 192, 118, 29, 71, 191, 222, 178, 42, 7, 230, 232, 234, 108, 130, 70, 105, 103, 152, 60, 234, 225, 125, 125, 206, 209, 224, 248, 235, 252, 223, 164, 201, 200, 245, 50, 156, 113, 137, 209, 185, 103, 66, 61, 16, 116, 95, 29, 9, 87, 80, 52, 112, 100, 70, 194, 245, 174, 39, 103, 56, 207, 123, 233, 62, 200, 226, 15, 237, 2, 169, 27, 162, 24, 178, 150, 183, 96, 177, 124, 87, 252, 18, 37, 254, 126, 217, 176, 2>>],
    [data |-> <<107, 34, 80, 203, 135, 147, 63, 3, 151, 87, 17, 95, 65, 122, 247, 111, 71, 172, 43, 62, 21, 60, 215, 223, 162, 112, 16, 213, 144, 35, 24, 178, 1>>,
     out |-> <<173, 225, 45, 103, 145, 72, 190, 220, 129, 101, 182, 25, 53, 147, 137, 58, 139, 133, 231, 228, 174, 144, 114, 131, 123, 198, 57, 149, 236, 237, 11, 27, 174, 10, 231, 243, 75, 93, 49, 173, 183, 207, 21, 24, 53, 71, 72, 184, 186, 220, 187, 84, 55, 41, 102, 255, 215, 5, 165, 187, 219, 48, 11, 161, 220, 187, 206, 112, 67, 116, 122, 240, 62, 203, 39, 181, 230, 249, 77, 140, 132, 228, 110, 23, 123, 170, 133, 233, 100, 139, 150, 63, 242, 208, 59, 88, 53, 232, 77, 51, 98, 59, 13, 151, 254, 226, 74, 156, 169, 231, 143, 114, 52, 12, 196, 177, 130, 75, 21, 220, 195, 242, 203, 146, 107, 244, 98, 64>>],
    [data |-> <<107, 34, 80, 203, 135, 147, 63, 3, 151, 87, 17, 95, 65, 122, 247, 111, 71, 172, 43, 62, 21, 60, 215, 223, 162, 112, 16, 213, 144, 35, 24, 178, 2>>,
     out |-> <<70, 210, 75, 167, 58, 36, 172, 33, 242, 81, 207, 127, 245, 170, 12, 55, 94, 147, 104, 87, 29, 12, 199, 186, 25, 202, 73, 88, 114, 248, 77, 156, 70, 149, 197, 203, 23, 197, 18, 152, 62, 175, 3, 75, 178, 252, 202, 196, 133, 250, 137, 225, 24, 57, 48, 2, 193, 89, 235, 79, 45, 23, 121, 68, 228, 192, 143, 199, 193, 54, 128, 154, 104, 87, 218, 198, 159, 74, 154, 56, 79, 113, 227, 46, 214, 1, 125, 159, 177, 193, 104, 139, 123, 57, 8, 13, 84, 47, 245, 141, 214, 28, 52, 100, 131, 98, 113, 230, 157, 65, 217, 168, 24, 170, 200, 177, 106, 47, 54, 180, 168, 71, 117, 189, 172, 3, 134, 143>>],
    [data |-> <<170, 12, 161, 162, 12, 240, 214, 27, 27, 59, 223, 80, 119, 92, 208, 123, 251, 90, 156, 170, 235, 174, 218, 20, 153, 97, 108, 89, 239, 192, 206, 134, 0>>,
     out |-> <<199, 128, 65, 221, 158, 97, 163, 119, 211, 190, 119, 81, 203, 172, 156, 185, 113, 195, 14, 55, 195, 103, 88, 109, 95, 225, 206, 221, 104, 81, 237, 231, 80, 109, 125, 54, 190, 218, 111, 159, 33, 20, 72, 75, 186, 42, 230, 201, 151, 208, 140, 220, 243, 168, 102, 40, 9, 86, 231, 92, 28, 134, 121, 84, 36, 94, 93, 226, 117, 236, 111, 244, 112, 151, 207, 117, 172, 175, 23, 236, 37, 202, 198, 38, 186, 76, 174, 169, 7, 120, 77, 89, 233, 75, 67, 137, 250, 134, 182, 249, 96, 75, 255, 64, 229, 77, 211, 48, 233, 249, 112, 101, 178, 74, 237, 63, 229, 78, 65, 188, 151, 118, 105, 31, 138, 63, 118, 97>>],
    [data |-> <<170, 12, 161, 162, 12, 240, 214, 27, 27, 59, 223, 80, 119, 92, 208, 123, 251, 90, 156, 170, 235, 174, 218, 20, 153, 97, 108, 89, 239, 192, 206, 134, 1>>,
     out |-> <<167, 116, 166, 23, 45, 222, 177, 186, 204, 128, 195, 149, 36, 87, 155, 41, 226, 177, 115, 20, 238, 44, 26, 225, 67, 168, 53, 204, 124, 172, 226, 105, 149, 8, 11, 151, 183, 185, 183, 255, 114, 117, 170, 236, 144, 24, 13, 79, 120, 66, 71, 147, 20, 219, 227, 238, 139, 98, 113, 45, 183, 231, 131, 153, 23, 96, 42, 235, 146, 127, 84, 98, 222, 3, 183, 138, 15, 43, 73, 194, 71, 151, 190, 240, 176, 147, 134, 78, 80, 211, 123, 52, 206, 18, 184, 153, 65, 152, 189, 34, 63, 195, 75, 34, 50, 73, 187, 61, 218, 82, 37, 2, 62, 133, 38, 163, 50, 130, 32, 83, 147, 115, 168, 57, 240, 153, 92, 121>>],
    [data |-> <<170, 12, 161, 162, 12, 240, 214, 27, 27, 59, 223, 80, 119, 92, 208, 123, 251, 90, 156, 170, 235, 174, 218, 20, 153, 97, 108, 89, 239, 192, 206, 134, 2>>,
     out |-> <<242, 218, 253, 10, 27, 39, 53, 44, 81, 220, 244, 248, 143, 51, 13, 51, 243, 195, 253, 228, 77, 87, 201, 16, 240, 241, 26, 194, 45, 82, 181, 85, 31, 145, 151, 52, 78, 75, 55, 194, 74, 47, 227, 97, 204, 235, 119, 118, 70, 243, 49, 221, 123, 87, 249, 52, 65, 46, 148, 106, 53, 130, 28, 177, 120, 112, 6, 204, 135, 122, 201, 24, 173, 225, 99, 211, 240, 175, 242, 150, 40, 197, 193, 87, 58, 58, 236, 50, 104, 108, 0, 125, 219, 232, 165, 20, 48, 241, 77, 29, 193, 128, 3, 164, 218, 238, 222, 32, 226, 127, 251, 15, 161, 253, 171, 95, 14, 134, 144, 223, 247, 19, 114, 70, 181, 31, 209, 135>>],
    [data |-> <<182, 155, 242, 210, 74, 192, 81, 236, 0, 110, 87, 185, 221, 254, 42, 179, 160, 247, 57, 68, 61, 171, 21, 178, 248, 20, 18, 188, 233, 90, 98, 244, 0>>,
     out |-> <<212, 198, 172, 48, 252, 54, 106, 27, 108, 66, 16, 19, 83, 30, 77, 141, 136, 207, 109, 185, 253, 133, 211, 125, 101, 207, 139, 2, 219, 46, 125, 20, 132, 114, 45, 123, 247, 246, 8, 102, 202, 87, 43, 49, 59, 44, 51, 109, 101, 207, 11, 12, 5, 105, 2, 179, 12, 243, 230, 139, 218, 217, 173, 20, 126, 223, 240, 61, 75, 108, 228, 94, 124, 12, 122, 75, 150, 17, 234, 139, 87, 66, 197, 51, 67, 150, 101, 163, 195, 227, 187, 63, 199, 125, 177, 18, 61, 189, 109, 68, 194, 161, 246, 250, 12, 238, 44, 48, 186, 35, 57, 65, 122, 39, 47, 89, 23, 37, 188, 243, 105, 208, 154, 227, 169, 49, 100, 150>>],
    [data |-> <<182, 155, 242, 210, 74, 192, 81, 236, 0, 110, 87, 185, 221, 254, 42, 179, 160, 247, 57, 68, 61, 171, 21, 178, 248, 20, 18, 188, 233, 90, 98, 244, 1>>,
     out |-> <<221, 55, 215, 10, 135, 150, 116, 248, 255, 225, 77, 202, 167, 178, 66, 50, 246, 190, 21, 75, 164, 115, 243, 208, 177, 177, 186, 69, 12, 53, 148, 237, 137, 153, 133, 103, 219, 108, 99, 143, 83, 80, 2, 103, 100, 227, 182, 128, 123, 220, 153, 134, 103, 42, 105, 205, 253, 217, 136, 134, 202, 245, 166, 171, 48, 71, 201, 9, 81, 159, 9, 165, 95, 108, 157, 85, 223, 207, 17, 120, 84, 232, 226, 55, 13, 208, 84, 185, 212, 97, 58, 108, 194, 168, 116, 5, 183, 165, 243, 176, 177, 189, 100, 204, 101, 130, 69, 216, 52, 15, 233, 9, 52, 115, 145, 117, 161, 231, 241, 60, 228, 125, 253, 182, 85, 205, 33, 18>>],
    [data |-> <<182, 155, 242, 210, 74, 192, 81, 236, 0, 110, 87, 185, 221, 254, 42, 179, 160, 247, 57, 68, 61, 171, 21, 178, 248, 20, 18, 188, 233, 90, 98, 244, 2>>,
     out |-> <<44, 102, 207, 70, 162, 171, 16, 11, 215, 10, 176, 109, 176, 169, 24, 205, 185, 42, 58, 63, 107, 87, 49, 220, 93, 216, 227, 169, 68, 89, 244, 122, 243, 52, 231, 214, 207, 244, 35, 44, 176, 64, 220, 67, 115, 37, 190, 125, 1, 134, 19, 14, 70, 6, 6, 89, 194, 232, 98, 249, 172, 204, 27, 75, 202, 240, 171, 69, 118, 55, 132, 147, 83, 204, 32, 204, 157, 219, 206, 138, 207, 173, 212, 219, 73, 175, 149, 22, 247, 33, 214, 4, 71, 228, 42, 184, 14, 217, 42, 28, 120, 148, 184, 174, 44, 146, 178, 42, 98, 172, 228, 95, 108, 124, 100, 83, 128, 237, 182, 222, 119, 167, 171, 45, 65, 28, 12, 66>>],
    [data |-> <<1, 153, 98, 222, 92, 241, 57, 12, 105, 216, 176, 135, 129, 23, 44, 217, 179, 78, 156, 241, 147, 53, 191, 105, 51, 251, 3, 40, 108, 65, 123, 60, 0>>,
     out |-> <<221, 212, 162, 89, 5, 23, 210, 130, 52, 198, 30, 113, 16, 49, 66, 216, 82, 142, 27, 135, 69, 30, 162, 154, 9, 5, 57, 128, 0, 102, 130, 161, 157, 129, 106, 228, 172, 120, 80, 181, 185, 99, 134, 49, 31, 157, 82, 250, 245, 202, 101, 236, 179, 188, 232, 156, 121, 186, 95, 255, 48, 208, 123, 253, 15, 93, 155, 137, 226, 85, 205, 190, 102, 71, 136, 191, 3, 191, 217, 151, 217, 38, 36, 138, 234, 93, 159, 147, 214, 164, 244, 17, 124, 237, 156, 231, 254, 244, 74, 187, 69, 129, 254, 186, 153, 182, 157, 118, 13, 209, 159, 214, 130, 153, 125, 33, 80, 144, 232, 8, 249, 221, 148, 237, 248, 84, 45, 28>>],
    [data |-> <<1, 153, 98, 222, 92, 241, 57, 12, 105, 216, 176, 135, 129, 23, 44, 217, 179, 78, 156, 241, 147, 53, 191, 105, 51, 251, 3, 40, 108, 65, 123, 60, 1>>,
     out |-> <<194, 246, 64, 6, 249, 154, 174, 71, 58, 181, 160, 182, 204, 240, 119, 137, 10, 129, 193, 115, 95, 29, 59, 139, 19, 205, 145, 184, 172, 32, 10, 41, 41, 134, 200, 183, 13, 210, 112, 148, 107, 89, 96, 101, 255, 246, 118, 162, 226, 247, 96, 53, 198, 7, 208, 34, 13, 103, 176, 170, 206, 10, 71, 239, 107, 127, 92, 50, 158, 6, 58, 155, 228, 130, 38, 168, 25, 169, 98, 38, 9, 36, 181, 227, 72, 153, 239, 19, 78, 54, 39, 76, 244, 21, 23, 117, 21, 17, 221, 87, 145, 121, 212, 30, 110, 49, 203, 95, 203, 75, 69, 238, 19, 40, 78, 134, 251, 100, 52, 43, 101, 161, 43, 88, 159, 26, 35, 18>>],
    [data |-> <<1, 153, 98, 222, 92, 241, 57, 12, 105, 216, 176, 135, 129, 23, 44, 217, 179, 78, 156, 241, 147, 53, 191, 105, 51, 251, 3, 40, 108, 65, 123, 60, 2>>,
     out |-> <<227, 72, 241, 213, 176, 118, 37, 144, 222, 129, 120, 223, 18, 56, 111, 33, 215, 67, 76, 152, 86, 95, 153, 132, 211, 151, 168, 175, 37, 0, 228, 26, 129, 169, 197, 198, 104, 104, 100, 77, 190, 239, 60, 132, 13, 177, 86, 87, 56, 96, 62, 130, 1, 149, 199, 8, 36, 234, 9, 81, 7, 49, 81, 0, 141, 167, 134, 64, 76, 62, 200, 243, 194, 182, 249, 126, 50, 118, 153, 244, 128, 176, 76, 50, 77, 192, 9, 4, 24, 144, 136, 255, 15, 79, 108, 109, 2, 25, 81, 124, 190, 239, 114, 252, 89, 153, 100, 63, 118, 210, 10, 84, 48, 206, 68, 191, 102, 203, 139, 46, 156, 84, 28, 115, 40, 11, 4, 69>>],
    [data |-> <<32, 161, 220, 104, 6, 81, 231, 22, 79, 204, 193, 227, 11, 108, 211, 90, 64, 123, 168, 22, 83, 123, 132, 136, 15, 126, 67, 58, 103, 3, 132, 108, 0>>,
     out |-> <<137, 216, 166, 112, 191, 235, 16, 175, 227, 1, 194, 59, 216, 10, 206, 251, 224, 197, 188, 138, 250, 180, 9, 82, 226, 206, 198, 245, 165, 90, 90, 112, 189, 159, 33, 247, 75, 76, 217, 86, 26, 33, 233, 45, 52, 35, 176, 164, 129, 20, 55, 244, 179, 92, 50, 112, 82, 64, 88, 173, 169, 68, 172, 30, 119, 34, 24, 103, 181, 50, 35, 221, 233, 113, 221, 177, 167, 105, 168, 102, 109, 188, 10, 234, 47, 5, 120, 44, 111, 89, 158, 23, 242, 39, 164, 148, 137, 254, 233, 179, 216, 167, 109, 82, 64, 223, 159, 16, 138, 177, 192, 35, 148, 117, 182, 10, 99, 176, 153, 63, 53, 38, 182, 255, 175, 113, 154, 57>>],
    [data |-> <<32, 161, 220, 104, 6, 81, 231, 22, 79, 204, 193, 227, 11, 108, 211, 90, 64, 123, 168, 22, 83, 123, 132, 136, 15, 126, 67, 58, 103, 3, 132, 108, 1>>,
     out |-> <<35, 24, 120, 81, 190, 99, 192, 235, 12, 220, 196, 226, 54, 2, 137, 218, 65, 28, 128, 248, 214, 58, 58, 238, 43, 208, 139, 94, 130, 133, 253, 121, 78, 183, 147, 14, 206, 249, 234, 254, 236, 34, 124, 86, 224, 95, 70, 79, 143, 101, 51, 144, 150, 107, 183, 198, 244, 130, 248, 172, 110, 150, 66, 33, 29, 50, 26, 168, 130, 248, 164, 146, 80, 89, 209, 234, 250, 33, 64, 63, 125, 189, 35, 2, 98, 236, 181, 146, 108, 129, 243, 248, 131, 189, 200, 111, 59, 86, 247, 13, 95, 43, 46, 202, 104, 93, 56, 22, 11, 78, 135, 128, 15, 71, 134, 95, 95, 63, 45, 198, 227, 132, 26, 220, 155, 20, 36, 141>>],
    [data |-> <<32, 161, 220, 104, 6, 81, 231, 22, 79, 204, 193, 227, 11, 108, 211, 90, 64, 123, 168, 22, 83, 123, 132, 136, 15, 126, 67, 58, 103, 3, 132, 108, 2>>,
     out |-> <<68, 245, 248, 9, 128, 20, 236, 39, 71, 246, 104, 117, 246, 110, 220, 107, 184, 216, 25, 245, 91, 127, 67, 86, 102, 0, 179, 84, 192, 252, 226, 60, 94, 114, 212, 10, 118, 46, 6, 129, 137, 27, 7, 35, 126, 56, 89, 190, 16, 244, 127, 29, 36, 9, 202, 191, 4, 18, 50, 126, 206, 35, 34, 58, 77, 188, 154, 156, 188, 20, 166, 131, 228, 173, 103, 11, 144, 81, 237, 140, 218, 155, 86, 170, 132, 69, 202, 209, 129, 146, 245, 247, 94, 38, 4, 146, 208, 163, 235, 57, 61, 216, 102, 119, 243, 6, 194, 119, 73, 165, 75, 208, 178, 16, 25, 59, 213, 143, 115, 53, 238, 192, 21, 111, 171, 126, 67, 158>>],
    [data |-> <<10, 87, 34, 227, 86, 100, 252, 250, 216, 108, 189, 39, 71, 173, 116, 243, 96, 253, 132, 102, 183, 46, 96, 64, 7, 218, 227, 247, 102, 18, 242, 255, 0>>,
     out |-> <<235, 66, 206, 43, 228, 76, 125, 189, 219, 149, 200, 109, 11, 90, 108, 58, 206, 230, 104, 237, 183, 203, 247, 167, 213, 159, 251, 89, 84, 78, 112, 99, 90, 222, 234, 55, 216, 207, 106, 229, 4, 196, 218, 189, 198, 147, 61, 147, 156, 141, 133, 143, 196, 124, 65, 181, 210, 205, 195, 124, 128, 206, 84, 176, 44, 208, 14, 0, 1, 2, 204, 130, 171, 78, 102, 38, 140, 21, 110, 114, 232, 172, 179, 148, 217, 213, 126, 56, 133, 118, 104, 204, 112, 44, 177, 28, 79, 49, 37, 15, 45, 150, 200, 173, 123, 240, 133, 111, 76, 153, 35, 145, 29, 59, 118, 9, 62, 161, 75, 201, 122, 157, 53, 215, 15, 45, 237, 164>>],
    [data |-> <<10, 87, 34, 227, 86, 100, 252, 250, 216, 108, 189, 39, 71, 173, 116, 243, 96, 253, 132, 102, 183, 46, 96, 64, 7, 218, 227, 247, 102, 18, 242, 255, 1>>,
     out |-> <<255, 77, 151, 121, 45, 17, 239, 43, 137, 104, 156, 167, 62, 27, 9, 91, 116, 182, 104, 11, 49, 175, 213, 89, 21, 195, 227, 146, 139, 78, 114, 129, 131, 103, 206, 62, 134, 241, 110, 157, 12, 170, 106, 58, 106, 0, 33, 174, 139, 119, 181, 171, 129, 139, 6, 82, 34, 101, 78, 7, 159, 177, 66, 113, 8, 245, 232, 70, 244, 202, 91, 169, 117, 106, 96, 59, 193, 127, 128, 153, 200, 89, 238, 234, 83, 31, 33, 175, 37, 183, 109, 17, 166, 44, 115, 203, 167, 104, 100, 60, 76, 53, 47, 189, 212, 242, 125, 90, 194, 76, 132, 10, 42, 165, 31, 119, 123, 213, 236, 123, 51, 94, 241, 68, 44, 182, 42, 52>>],
    [data |-> <<10, 87, 34, 227, 86, 100, 252, 250, 216, 108, 189, 39, 71, 173, 116, 243, 96, 253, 132, 102, 183, 46, 96, 64, 7, 218, 227, 247, 102, 18, 242, 255, 2>>,
     out |-> <<39, 196, 206, 59, 0, 98, 132, 69, 161, 22, 4, 40, 180, 245, 227, 18, 127, 167, 94, 159, 175, 19, 7, 54, 203, 92, 225, 40, 1, 198, 85, 169, 77, 225, 225, 100, 68, 133, 215, 132, 40, 199, 128, 93, 139, 96, 244, 190, 94, 67, 27, 68, 41, 131, 231, 101, 54, 227, 152, 10, 136, 123, 14, 63, 175, 115, 116, 178, 128, 244, 21, 231, 226, 156, 85, 48, 39, 1, 123, 65, 40, 170, 29, 68, 109, 37, 175, 173, 51, 2, 36, 63, 219, 59, 26, 55, 2, 217, 201, 89, 230, 21, 221, 94, 95, 255, 145, 151, 206, 118, 206, 8, 109, 158, 0, 116, 189, 79, 79, 173, 116, 41, 102, 130, 125, 174, 248, 20>>],
    [data |-> <<200, 57, 27, 117, 79, 212, 127, 48, 250, 208, 32, 186, 58, 18, 31, 10, 159, 77, 15, 117, 137, 216, 120, 105, 77, 249, 29, 123, 130, 206, 59, 130, 0>>,
     out |-> <<108, 237, 186, 9, 32, 100, 75, 58, 248, 138, 41, 63, 226, 149, 26, 210, 49, 146, 109, 42, 36, 202, 76, 99, 85, 64, 120, 252, 141, 82, 128, 43, 64, 13, 165, 167, 174, 237, 159, 214, 82, 197, 65, 77, 96, 215, 210, 227, 234, 117, 250, 41, 143, 7, 197, 13, 78, 200, 105, 105, 66, 174, 2, 185, 23, 183, 228, 96, 120, 111, 198, 60, 185, 44, 244, 193, 26, 52, 55, 21, 39, 79, 139, 227, 252, 67, 203, 252, 191, 197, 27, 37, 210, 187, 136, 55, 95, 183, 107, 122, 14, 195, 46, 230, 184, 229, 92, 161, 152, 95, 103, 79, 231, 176, 43, 171, 199, 150, 233, 196, 112, 227, 85, 10, 61, 203, 137, 21>>],
    [data |-> <<200, 57, 27, 117, 79, 212, 127, 48, 250, 208, 32, 186, 58, 18, 31, 10, 159, 77, 15, 117, 137, 216, 120, 105, 77, 249, 29, 123, 130, 206, 59, 130, 1>>,
     out |-> <<125, 239, 30, 33, 136, 33, 204, 135, 222, 198, 8, 110, 121, 199, 251, 50, 46, 239, 144, 68, 179, 167, 190, 142, 252, 204, 202, 72, 53, 111, 93, 255, 103, 124, 92, 172, 159, 117, 74, 22, 85, 128, 17, 161, 98, 240, 17, 45, 174, 0, 158, 198, 62, 158, 51, 249, 19, 170, 112, 95, 193, 222, 96, 114, 19, 253, 158, 6, 207, 151, 171, 186, 88, 193, 209, 17, 162, 249, 218, 162, 193, 112, 125, 84, 192, 37, 30, 175, 2, 88, 242, 170, 113, 41, 65, 234, 155, 19, 42, 75, 29, 11, 49, 173, 17, 26, 140, 36, 249, 134, 123, 106, 192, 251, 127, 127, 40, 94, 134, 249, 4, 40, 73, 83, 195, 120, 47, 115>>],
    [data |-> <<200, 57, 27, 117, 79, 212, 127, 48, 250, 208, 32, 186, 58, 18, 31, 10, 159, 77, 15, 117, 137, 216, 120, 105, 77, 249, 29, 123, 130, 206, 59, 130, 2>>,
     out |-> <<146, 243, 84, 223, 60, 178, 65, 174, 191, 197, 187, 77, 135, 82, 204, 53, 74, 158, 158, 140, 195, 191, 137, 237, 253, 43, 36, 117, 127, 115, 21, 7, 48, 151, 135, 193, 16, 87, 166, 86, 90, 116, 80, 125, 185, 182, 225, 58, 54, 52, 103, 178, 254, 13, 184, 174, 253, 105, 99, 10, 169, 115, 74, 62, 104, 137, 204, 181, 104, 173, 52, 149, 83, 215, 170, 92, 50, 85, 42, 84, 203, 212, 95, 22, 74, 176, 199, 56, 165, 55, 60, 255, 88, 225, 115, 211, 71, 242, 251, 55, 253, 234, 16, 186, 87, 247, 134, 37, 63, 230, 240, 29, 158, 163, 16, 224, 164, 226, 109, 115, 237, 36, 215, 134, 189, 197, 35, 53>>],
    [data |-> <<65, 169, 54, 247, 205, 11, 141, 47, 193, 45, 158, 206, 14, 208, 231, 154, 229, 91, 140, 230, 2, 138, 116, 35, 134, 222, 26, 124, 150, 63, 252, 156, 0>>,
     out |-> <<164, 175, 168, 92, 192, 71, 211, 175, 86, 52, 186, 170, 71, 172, 21, 57, 137, 181, 150, 142, 142, 110, 13, 109, 201, 77, 83, 190, 206, 226, 119, 8, 216, 254, 215, 242, 217, 158, 45, 214, 11, 91, 244, 198, 202, 172, 96, 108, 181, 68, 194, 209, 227, 84, 1, 4, 196, 41, 192, 66, 141, 73, 208, 44, 51, 110, 236, 177, 49, 200, 165, 160, 234, 89, 50, 88, 27, 140, 142, 136, 118, 183, 148, 102, 184, 50, 94, 113, 218, 130, 165, 104, 207, 30, 67, 69, 199, 83, 9, 57, 27, 236, 148, 25, 56, 4, 30, 77, 244, 243, 110, 243, 110, 188, 208, 184, 228, 33, 197, 144, 245, 71, 106, 121, 247, 192, 123, 231>>],
    [data |-> <<65, 169, 54, 247, 205, 11, 141, 47, 193, 45, 158, 206, 14, 208, 231, 154, 229, 91, 140, 230, 2, 138, 116, 35, 134, 222, 26, 124, 150, 63, 252, 156, 1>>,
     out |-> <<39, 213, 204, 5, 110, 22, 180, 88, 154, 77, 70, 195, 146, 154, 40, 61, 90, 189, 65, 30, 21, 114, 208, 137, 17, 90, 123, 207, 88, 182, 146, 11, 26, 5, 118, 36, 82, 231, 84, 21, 71, 247, 108, 192, 252, 69, 59, 123, 159, 200, 9, 245, 224, 120, 11, 86, 226, 97, 230, 76, 11, 144, 103, 56, 5, 5, 212, 248, 67, 210, 34, 96, 228, 25, 20, 166, 36, 81, 23, 129, 181, 255, 118, 218, 213, 46, 206, 72, 234, 175, 167, 215, 145, 98, 12, 140, 188, 162, 74, 247, 32, 31, 104, 152, 40, 120, 169, 144, 52, 208, 19, 206, 82, 13, 178, 138, 190, 72, 221, 133, 171, 59, 31, 6, 18, 241, 159, 57>>],
    [data |-> <<65, 169, 54, 247, 205, 11, 141, 47, 193, 45, 158, 206, 14, 208, 231, 154, 229, 91, 140, 230, 2, 138, 116, 35, 134, 222, 26, 124, 150, 63, 252, 156, 2>>,
     out |-> <<146, 184, 195, 23, 203, 146, 154, 161, 51, 80, 246, 99, 44, 131, 208, 81, 9, 123, 234, 41, 131, 185, 109, 84, 44, 236, 236, 242, 70, 155, 112, 174, 210, 224, 145, 92, 9, 68, 25, 209, 243, 95, 111, 236, 112, 206, 23, 202, 72, 120, 166, 200, 19, 207, 25, 35, 146, 149, 99, 173, 47, 133, 167, 128, 106, 115, 237, 229, 238, 189, 191, 21, 179, 81, 91, 25, 104, 241, 100, 62, 105, 226, 196, 67, 154, 162, 225, 121, 147, 9, 216, 202, 232, 192, 153, 31, 230, 15, 227, 200, 153, 115, 68, 40, 80, 232, 64, 253, 121, 110, 73, 190, 147, 128, 224, 25, 138, 51, 234, 32, 81, 7, 163, 158, 57, 235, 160, 68>>]
    >>

\* hashlib.sha3_256(data).digest() for the 32-byte inputs the model reaches
Sha3_256Table == <<
    [data |-> <<72, 188, 202, 26, 183, 13, 78, 151, 230, 244, 230, 38, 15, 252, 231, 82, 129, 119, 135, 202, 53, 84, 78, 218, 113, 209, 85, 170, 3, 166, 104, 76>>,
     out |-> <<90, 219, 141, 132, 81, 210, 169, 36, 220, 188, 211, 106, 177, 93, 87, 159, 144, 111, 13, 28, 47, 26, 153, 193, 60, 227, 16, 247, 67, 221, 119, 201>>],
    [data |-> <<127, 35, 40, 192, 238, 167, 185, 25, 70, 59, 163, 212, 178, 220, 214, 115, 142, 217, 117, 127, 69, 202, 159, 213, 155, 67, 23, 237, 183, 160, 88, 126>>,
     out |-> <<144, 215, 78, 21, 53, 102, 171, 106, 40, 17, 214, 196, 237, 88, 202, 42, 150, 29, 48, 36, 245, 113, 177, 230, 188, 24, 136, 20, 138, 126, 209, 170>>],
    [data |-> <<223, 87, 253, 170, 200, 66, 51, 98, 72, 174, 51, 163, 209, 212, 93, 202, 242, 6, 77, 220, 119, 109, 130, 106, 85, 10, 189, 28, 106, 141, 131, 43>>,
     out |-> <<21, 121, 228, 197, 203, 164, 6, 201, 111, 238, 190, 139, 185, 170, 110, 210, 114, 54, 54, 62, 249, 178, 223, 151, 241, 155, 217, 217, 153, 127, 110, 148>>],
    [data |-> <<170, 48, 163, 170, 183, 40, 32, 28, 29, 176, 229, 144, 71, 13, 71, 26, 126, 40, 76, 215, 63, 238, 28, 143, 47, 193, 251, 212, 35, 218, 158, 246>>,
     out |-> <<99, 125, 251, 243, 67, 18, 16, 231, 134, 227, 32, 150, 249, 48, 131, 89, 49, 126, 8, 40, 186, 140, 60, 221, 45, 226, 34, 94, 207, 91, 89, 63>>],
    [data |-> <<47, 136, 200, 190, 204, 224, 182, 214, 166, 236, 92, 73, 100, 106, 197, 59, 43, 26, 28, 170, 202, 141, 134, 126, 60, 205, 245, 225, 61, 108, 55, 53>>,
     out |-> <<68, 149, 145, 237, 105, 91, 3, 250, 211, 217, 136, 65, 209, 234, 220, 110, 1, 180, 188, 182, 147, 174, 226, 173, 223, 100, 247, 66, 214, 120, 92, 162>>],
    [data |-> <<125, 79, 97, 239, 42, 251, 103, 247, 112, 121, 109, 89, 248, 215, 154, 116, 193, 30, 39, 180, 33, 206, 221, 130, 181, 242, 36, 181, 106, 186, 165, 109>>,
     out |-> <<6, 3, 225, 231, 35, 10, 84, 137, 26, 154, 249, 147, 200, 73, 1, 236, 211, 49, 119, 224, 147, 65, 15, 100, 164, 188, 45, 107, 198, 131, 254, 246>>],
    [data |-> <<132, 102, 48, 71, 81, 27, 17, 240, 91, 64, 37, 59, 19, 142, 125, 42, 60, 174, 131, 217, 194, 74, 234, 20, 48, 9, 43, 145, 198, 51, 35, 241>>,
     out |-> <<70, 49, 47, 102, 42, 120, 171, 70, 127, 38, 63, 255, 108, 15, 129, 98, 76, 7, 100, 20, 230, 16, 120, 51, 50, 9, 122, 229, 203, 107, 84, 215>>],
    [data |-> <<54, 57, 193, 234, 225, 5, 107, 130, 253, 207, 126, 65, 110, 212, 208, 245, 9, 105, 200, 85, 129, 206, 210, 231, 184, 114, 241, 90, 213, 219, 222, 56>>,
     out |-> <<103, 78, 53, 229, 222, 232, 156, 69, 184, 218, 187, 41, 220, 121, 31, 173, 171, 36, 251, 36, 171, 229, 116, 7, 94, 3, 173, 47, 183, 87, 189, 64>>],
    [data |-> <<17, 205, 104, 33, 110, 242, 235, 159, 82, 4, 4, 219, 2, 54, 248, 111, 55, 227, 211, 244, 174, 178, 227, 106, 203, 135, 117, 136, 252, 81, 139, 65>>,
     out |-> <<172, 129, 136, 125, 249, 206, 92, 22, 18, 239, 154, 192, 121, 134, 172, 128, 31, 3, 98, 69, 250, 234, 11, 13, 147, 119, 92, 37, 200, 227, 109, 134>>],
    [data |-> <<84, 34, 137, 131, 141, 116, 65, 4, 248, 135, 191, 181, 119, 33, 159, 99, 61, 205, 118, 171, 115, 168, 118, 229, 245, 101, 235, 17, 170, 4, 19, 145>>,
     out |-> <<58, 224, 84, 148, 110, 2, 154, 94, 27, 154, 68, 232, 8, 82, 15, 68, 219, 136, 237, 208, 84, 18, 194, 114, 84, 246, 101, 70, 159, 115, 251, 231>>],
    [data |-> <<73, 246, 156, 75, 155, 245, 120, 221, 48, 183, 223, 19, 202, 35, 224, 13, 93, 232, 168, 233, 131, 50, 130, 203, 150, 50, 212, 65, 77, 159, 53, 62>>,
     out |-> <<83, 88, 215, 182, 4, 11, 127, 99, 166, 2, 197, 200, 98, 248, 132, 101, 138, 252, 235, 232, 46, 10, 236, 74, 56, 83, 107, 136, 219, 77, 132, 80>>],
    [data |-> <<154, 173, 53, 185, 183, 172, 153, 81, 117, 145, 128, 73, 208, 140, 110, 250, 145, 22, 100, 146, 203, 97, 171, 32, 18, 100, 51, 118, 67, 52, 231, 24>>,
     out |-> <<97, 207, 230, 255, 225, 55, 115, 81, 95, 190, 12, 150, 157, 70, 98, 98, 146, 103, 163, 150, 126, 10, 247, 89, 91, 176, 107, 165, 222, 32, 217, 10>>],
    [data |-> <<62, 243, 185, 56, 46, 100, 168, 145, 216, 4, 218, 227, 203, 9, 147, 114, 19, 140, 234, 1, 12, 201, 143, 190, 227, 49, 135, 135, 210, 75, 120, 150>>,
     out |-> <<205, 164, 199, 224, 39, 232, 69, 64, 102, 34, 202, 33, 157, 163, 206, 21, 122, 178, 58, 95, 251, 51, 178, 178, 239, 91, 138, 234, 219, 57, 33, 229>>],
    [data |-> <<178, 208, 31, 137, 82, 252, 20, 213, 13, 135, 199, 110, 67, 97, 35, 67, 87, 218, 103, 151, 234, 39, 129, 151, 179, 70, 76, 140, 108, 66, 6, 37>>,
     out |-> <<2, 220, 255, 169, 26, 32, 110, 227, 37, 119, 120, 246, 25, 70, 248, 32, 10, 231, 217, 89, 25, 153, 19, 0, 69, 155, 225, 12, 173, 208, 238, 27>>],
    [data |-> <<5, 176, 217, 165, 210, 161, 228, 65, 218, 185, 223, 55, 31, 169, 58, 30, 128, 176, 102, 61, 56, 201, 73, 152, 252, 246, 236, 25, 223, 247, 141, 248>>,
     out |-> <<199, 64, 60, 226, 177, 157, 179, 56, 77, 155, 104, 183, 58, 158, 176, 223, 56, 220, 112, 102, 215, 85, 218, 194, 45, 164, 93, 166, 39, 34, 126, 150>>],
    [data |-> <<77, 243, 245, 59, 249, 89, 49, 96, 38, 141, 235, 192, 28, 183, 147, 182, 9, 114, 160, 192, 95, 1, 176, 150, 200, 103, 188, 165, 141, 79, 51, 174>>,
     out |-> <<98, 127, 31, 66, 250, 204, 20, 241, 242, 9, 83, 181, 43, 186, 233, 151, 127, 10, 218, 20, 140, 21, 151, 185, 53, 83, 102, 199, 87, 82, 209, 187>>],
    [data |-> <<97, 188, 235, 78, 0, 226, 71, 33, 118, 246, 38, 24, 57, 161, 17, 239, 31, 80, 54, 135, 194, 221, 5, 79, 238, 119, 164, 144, 240, 20, 82, 91>>,
     out |-> <<45, 109, 3, 167, 188, 170, 19, 238, 91, 147, 200, 149, 10, 108, 94, 185, 221, 154, 74, 220, 81, 190, 167, 246, 4, 23, 24, 197, 54, 41, 34, 218>>],
    [data |-> <<195, 234, 228, 62, 255, 220, 42, 232, 223, 236, 182, 243, 104, 6, 162, 250, 72, 117, 129, 40, 169, 248, 196, 101, 193, 124, 195, 112, 161, 159, 11, 250>>,
     out |-> <<195, 90, 231, 111, 61, 77, 200, 238, 21, 127, 130, 195, 7, 71, 96, 80, 57, 146, 85, 71, 17, 139, 246, 60, 15, 99, 245, 197, 108, 233, 42, 32>>],
    [data |-> <<160, 121, 186, 215, 13, 13, 194, 89, 143, 88, 235, 129, 227, 65, 231, 100, 227, 132, 160, 176, 86, 230, 230, 238, 69, 174, 80, 119, 238, 196, 18, 192>>,
     out |-> <<247, 109, 157, 129, 181, 35, 207, 117, 70, 251, 30, 113, 203, 197, 237, 198, 43, 250, 222, 90, 231, 44, 92, 58, 46, 16, 11, 132, 154, 121, 58, 144>>],
    [data |-> <<67, 109, 46, 42, 248, 236, 83, 252, 97, 87, 13, 34, 250, 67, 16, 23, 16, 52, 135, 115, 170, 207, 28, 201, 157, 59, 157, 9, 208, 193, 54, 157>>,
     out |-> <<177, 199, 122, 255, 235, 181, 60, 21, 96, 158, 56, 138, 163, 192, 124, 139, 45, 110, 224, 170, 226, 66, 148, 153, 3, 145, 24, 193, 23, 153, 68, 164>>],
    [data |-> <<28, 120, 129, 196, 58, 242, 105, 253, 100, 42, 183, 165, 75, 223, 124, 66, 26, 86, 218, 131, 42, 52, 60, 147, 133, 12, 125, 184, 55, 204, 184, 97>>,
     out |-> <<118, 105, 26, 170, 224, 134, 185, 253, 133, 255, 57, 117, 91, 149, 32, 136, 7, 242, 160, 76, 94, 130, 88, 255, 102, 235, 62, 130, 138, 246, 178, 18>>],
    [data |-> <<91, 184, 12, 130, 132, 116, 1, 8, 77, 85, 87, 76, 185, 3, 108, 100, 44, 41, 200, 239, 58, 203, 122, 154, 122, 15, 105, 200, 15, 96, 153, 197>>,
     out |-> <<212, 9, 162, 143, 217, 115, 23, 231, 213, 8, 217, 93, 203, 208, 246, 80, 165, 140, 234, 1, 250, 54, 103, 172, 216, 2, 247, 97, 147, 235, 158, 225>>],
    [data |-> <<1, 47, 89, 247, 196, 65, 82, 59, 85, 160, 246, 164, 99, 46, 50, 244, 64, 57, 121, 9, 54, 54, 204, 181, 10, 207, 206, 138, 3, 200, 95, 38>>,
     out |-> <<24, 207, 200, 120, 159, 247, 130, 70, 252, 49, 202, 116, 251, 21, 191, 158, 41, 94, 167, 30, 189, 109, 94, 135, 114, 165, 174, 63, 122, 123, 189, 79>>],
    [data |-> <<170, 122, 96, 22, 214, 195, 171, 215, 227, 225, 125, 215, 161, 34, 72, 234, 94, 222, 62, 189, 17, 208, 204, 10, 95, 254, 238, 245, 37, 216, 110, 60>>,
     out |-> <<186, 31, 119, 185, 88, 115, 49, 218, 156, 14, 110, 29, 22, 160, 95, 21, 12, 24, 144, 217, 173, 189, 218, 74, 118, 5, 14, 108, 113, 218, 27, 43>>],
    [data |-> <<52, 251, 251, 206, 61, 72, 78, 148, 72, 33, 100, 187, 54, 23, 12, 206, 109, 129, 41, 78, 176, 15, 217, 227, 107, 187, 212, 59, 103, 56, 185, 1>>,
     out |-> <<120, 196, 76, 75, 58, 234, 200, 216, 197, 68, 8, 230, 243, 156, 4, 214, 157, 67, 191, 3, 120, 24, 212, 125, 113, 40, 255, 106, 32, 159, 8, 120>>],
    [data |-> <<227, 22, 72, 42, 208, 38, 34, 202, 104, 66, 173, 5, 85, 11, 127, 117, 203, 87, 26, 107, 24, 205, 182, 135, 122, 107, 253, 53, 7, 197, 247, 141>>,
     out |-> <<228, 199, 72, 96, 34, 115, 98, 232, 133, 189, 33, 35, 35, 197, 171, 221, 194, 33, 50, 143, 27, 19, 36, 48, 134, 98, 130, 37, 117, 54, 149, 168>>],
    [data |-> <<38, 35, 30, 212, 95, 210, 194, 103, 21, 16, 197, 198, 145, 248, 88, 161, 22, 197, 207, 65, 113, 93, 253, 119, 57, 12, 1, 10, 73, 233, 138, 112>>,
     out |-> <<122, 42, 25, 90, 190, 54, 36, 222, 88, 5, 115, 103, 73, 8, 131, 63, 43, 173, 246, 55, 210, 246, 234, 186, 28, 169, 105, 72, 31, 135, 126, 34>>],
    [data |-> <<234, 57, 186, 135, 52, 234, 145, 155, 63, 14, 100, 157, 45, 85, 35, 42, 77, 39, 157, 215, 155, 187, 27, 200, 42, 135, 72, 98, 101, 163, 239, 229>>,
     out |-> <<80, 179, 193, 251, 133, 141, 157, 189, 103, 65, 112, 27, 58, 75, 213, 51, 226, 229, 226, 251, 217, 198, 29, 132, 214, 207, 149, 16, 33, 13, 195, 107>>],
    [data |-> <<91, 93, 163, 122, 27, 249, 208, 44, 249, 142, 164, 11, 147, 150, 150, 75, 94, 14, 200, 160, 34, 53, 218, 160, 204, 56, 157, 12, 129, 238, 130, 177>>,
     out |-> <<105, 248, 130, 219, 207, 230, 61, 238, 218, 185, 179, 68, 136, 72, 74, 82, 252, 50, 9, 222, 3, 159, 115, 169, 47, 73, 97, 34, 69, 88, 244, 39>>],
    [data |-> <<138, 215, 232, 52, 129, 197, 138, 183, 138, 85, 107, 108, 247, 180, 73, 5, 168, 153, 104, 63, 110, 240, 89, 17, 143, 90, 136, 219, 155, 131, 19, 79>>,
     out |-> <<145, 190, 202, 182, 95, 127, 7, 140, 28, 127, 253, 164, 17, 15, 227, 8, 207, 91, 55, 101, 0, 0, 3, 23, 35, 149, 108, 113, 131, 101, 138, 177>>],
    [data |-> <<225, 234, 242, 247, 1, 18, 51, 91, 132, 214, 239, 181, 104, 170, 244, 193, 229, 107, 199, 127, 130, 233, 196, 155, 61, 203, 79, 88, 187, 62, 105, 149>>,
     out |-> <<243, 194, 243, 141, 176, 135, 121, 178, 50, 19, 5, 142, 112, 109, 189, 40, 40, 57, 208, 89, 52, 51, 126, 147, 234, 10, 103, 229, 192, 124, 73, 108>>],
    [data |-> <<244, 106, 50, 158, 21, 202, 143, 84, 120, 140, 213, 98, 50, 191, 75, 112, 164, 205, 46, 132, 102, 139, 201, 216, 6, 140, 87, 83, 165, 160, 88, 110>>,
     out |-> <<20, 45, 50, 116, 125, 172, 218, 147, 77, 205, 37, 186, 155, 205, 18, 115, 203, 178, 54, 126, 33, 206, 115, 240, 34, 113, 218, 159, 1, 132, 170, 164>>],
    [data |-> <<212, 143, 200, 126, 8, 90, 48, 117, 12, 204, 122, 73, 235, 211, 73, 35, 216, 53, 206, 5, 43, 158, 170, 144, 85, 73, 70, 15, 106, 13, 98, 88>>,
     out |-> <<211, 144, 165, 105, 186, 255, 33, 188, 52, 92, 91, 132, 152, 73, 21, 185, 144, 43, 121, 113, 166, 230, 177, 195, 136, 2, 101, 5, 180, 238, 61, 244>>],
    [data |-> <<216, 163, 157, 172, 67, 61, 227, 77, 140, 126, 226, 207, 90, 8, 134, 158, 143, 143, 196, 73, 222, 146, 96, 168, 59, 218, 72, 38, 155, 50, 153, 75>>,
     out |-> <<83, 194, 159, 69, 32, 116, 174, 226, 9, 65, 216, 2, 127, 43, 215, 48, 52, 133, 157, 235, 82, 75, 195, 72, 252, 30, 164, 151, 178, 129, 87, 152>>],
    [data |-> <<76, 124, 162, 55, 80, 116, 182, 41, 131, 199, 243, 237, 77, 232, 165, 41, 231, 57, 59, 255, 14, 243, 23, 119, 105, 24, 127, 104, 228, 221, 123, 139>>,
     out |-> <<220, 15, 85, 114, 25, 238, 79, 245, 70, 79, 215, 201, 197, 73, 146, 201, 168, 192, 244, 120, 71, 248, 195, 11, 104, 41, 193, 168, 138, 90, 44, 206>>],
    [data |-> <<34, 67, 155, 112, 90, 53, 127, 188, 117, 103, 17, 39, 7, 115, 91, 165, 148, 218, 151, 111, 15, 17, 220, 169, 245, 182, 204, 120, 121, 105, 71, 107>>,
     out |-> <<89, 159, 113, 144, 38, 63, 242, 243, 132, 249, 173, 122, 254, 247, 212, 237, 229, 171, 231, 175, 3, 98, 216, 139, 252, 108, 64, 203, 76, 36, 114, 185>>],
    [data |-> <<159, 104, 220, 183, 85, 9, 194, 217, 248, 229, 102, 143, 117, 45, 194, 238, 192, 245, 193, 123, 216, 246, 115, 54, 244, 182, 186, 170, 35, 55, 113, 193>>,
     out |-> <<252, 15, 235, 91, 12, 36, 16, 182, 55, 167, 84, 74, 66, 21, 225, 55, 152, 187, 122, 63, 160, 71, 233, 216, 179, 52, 56, 72, 96, 11, 100, 149>>],
    [data |-> <<241, 175, 181, 245, 75, 236, 132, 71, 14, 10, 201, 2, 215, 46, 176, 197, 57, 234, 3, 250, 198, 18, 232, 165, 202, 141, 79, 28, 199, 151, 96, 241>>,
     out |-> <<141, 152, 91, 157, 195, 252, 218, 99, 200, 218, 111, 83, 179, 58, 111, 180, 113, 109, 231, 24, 35, 186, 102, 253, 69, 80, 231, 82, 152, 219, 218, 97>>],
    [data |-> <<155, 118, 253, 77, 84, 79, 115, 53, 168, 177, 143, 27, 179, 2, 89, 55, 163, 165, 69, 29, 114, 127, 96, 88, 100, 179, 29, 74, 221, 179, 208, 26>>,
     out |-> <<60, 28, 182, 20, 130, 135, 17, 219, 171, 130, 241, 129, 33, 107, 161, 4, 97, 237, 9, 68, 55, 34, 242, 122, 40, 114, 167, 199, 8, 168, 41, 196>>],
    [data |-> <<6, 128, 51, 47, 122, 147, 53, 219, 68, 239, 228, 46, 6, 92, 57, 206, 235, 123, 56, 88, 50, 198, 243, 152, 229, 5, 236, 95, 108, 218, 224, 79>>,
     out |-> <<87, 45, 150, 43, 5, 197, 32, 223, 168, 171, 255, 35, 79, 204, 26, 144, 111, 52, 170, 169, 88, 102, 134, 15, 206, 175, 136, 98, 86, 32, 31, 14>>],
    [data |-> <<181, 202, 148, 147, 7, 40, 202, 15, 224, 35, 232, 131, 217, 76, 169, 215, 255, 181, 13, 232, 229, 149, 246, 99, 101, 159, 161, 86, 30, 167, 26, 220>>,
     out |-> <<28, 155, 210, 12, 9, 219, 68, 134, 252, 179, 189, 72, 56, 179, 249, 177, 148, 153, 113, 133, 172, 166, 80, 188, 105, 109, 148, 142, 230, 229, 177, 60>>],
    [data |-> <<211, 75, 114, 85, 218, 240, 97, 103, 140, 165, 202, 224, 193, 12, 220, 82, 2, 200, 46, 133, 138, 92, 225, 214, 6, 107, 117, 45, 111, 86, 186, 83>>,
     out |-> <<183, 203, 133, 39, 184, 68, 104, 188, 24, 249, 105, 185, 56, 69, 41, 150, 110, 96, 2, 227, 148, 115, 245, 173, 114, 171, 253, 65, 48, 245, 224, 157>>],
    [data |-> <<99, 138, 209, 95, 149, 172, 56, 193, 24, 93, 124, 162, 56, 208, 186, 98, 51, 111, 122, 181, 204, 67, 133, 172, 135, 147, 45, 170, 249, 201, 161, 210>>,
     out |-> <<253, 204, 122, 152, 101, 245, 213, 71, 149, 87, 203, 207, 178, 97, 116, 1, 29, 244, 82, 185, 45, 240, 69, 61, 205, 62, 81, 68, 138, 99, 0, 210>>],
    [data |-> <<117, 56, 133, 192, 233, 183, 213, 51, 76, 155, 238, 52, 231, 183, 22, 68, 54, 149, 67, 242, 231, 74, 64, 60, 226, 255, 249, 75, 3, 156, 221, 19>>,
     out |-> <<116, 170, 254, 48, 12, 117, 166, 145, 205, 181, 122, 231, 39, 34, 3, 99, 239, 40, 33, 150, 150, 91, 211, 21, 21, 251, 170, 199, 217, 94, 77, 91>>],
    [data |-> <<94, 204, 113, 246, 162, 81, 34, 4, 242, 43, 234, 140, 217, 201, 185, 30, 88, 175, 120, 218, 252, 47, 196, 207, 148, 243, 53, 94, 85, 194, 64, 213>>,
     out |-> <<120, 251, 209, 6, 55, 182, 144, 123, 238, 73, 102, 111, 98, 25, 21, 68, 49, 113, 95, 64, 131, 122, 174, 86, 158, 251, 96, 144, 240, 173, 215, 110>>],
    [data |-> <<84, 68, 212, 250, 199, 34, 210, 120, 194, 110, 65, 91, 22, 122, 106, 93, 206, 126, 109, 155, 83, 75, 22, 76, 10, 254, 109, 222, 133, 85, 70, 232>>,
     out |-> <<164, 199, 8, 119, 197, 68, 112, 54, 224, 70, 48, 51, 198, 104, 151, 151, 8, 218, 70, 115, 228, 76, 75, 92, 162, 25, 190, 124, 188, 92, 34, 38>>],
    [data |-> <<224, 115, 59, 186, 115, 2, 242, 207, 176, 191, 232, 178, 208, 20, 26, 158, 184, 245, 41, 1, 89, 24, 98, 126, 7, 138, 107, 177, 50, 93, 205, 130>>,
     out |-> <<70, 77, 106, 109, 194, 120, 156, 252, 252, 77, 160, 111, 213, 173, 133, 60, 223, 72, 92, 103, 246, 22, 171, 3, 56, 81, 207, 173, 61, 251, 108, 211>>],
    [data |-> <<135, 166, 179, 186, 12, 115, 243, 170, 95, 66, 64, 84, 210, 215, 253, 145, 148, 43, 243, 31, 246, 35, 196, 246, 218, 146, 252, 243, 101, 56, 251, 55>>,
     out |-> <<144, 63, 63, 175, 226, 173, 136, 181, 131, 133, 144, 247, 140, 161, 93, 8, 215, 127, 225, 227, 242, 150, 48, 182, 167, 251, 248, 107, 76, 83, 250, 192>>],
    [data |-> <<136, 184, 251, 131, 179, 246, 216, 149, 4, 196, 81, 189, 224, 228, 250, 133, 201, 123, 1, 7, 250, 203, 197, 195, 63, 146, 201, 89, 188, 176, 217, 107>>,
     out |-> <<25, 76, 101, 78, 123, 207, 13, 12, 204, 232, 21, 115, 209, 14, 50, 209, 254, 219, 11, 23, 73, 206, 131, 228, 34, 88, 191, 6, 24, 72, 91, 108>>],
    [data |-> <<178, 187, 203, 10, 145, 227, 212, 47, 76, 171, 253, 190, 33, 21, 75, 115, 28, 254, 132, 191, 136, 8, 157, 107, 12, 226, 177, 27, 230, 161, 235, 48>>,
     out |-> <<140, 191, 5, 200, 60, 20, 185, 42, 170, 135, 67, 131, 161, 122, 86, 122, 237, 230, 227, 199, 47, 122, 137, 189, 127, 44, 161, 112, 150, 34, 86, 50>>],
    [data |-> <<227, 143, 154, 146, 132, 51, 84, 195, 83, 149, 154, 9, 198, 66, 107, 197, 183, 24, 166, 243, 34, 209, 209, 230, 46, 145, 92, 76, 179, 48, 36, 181>>,
     out |-> <<254, 169, 51, 66, 38, 119, 108, 119, 112, 205, 124, 74, 32, 1, 227, 8, 124, 206, 236, 206, 32, 100, 33, 21, 1, 71, 216, 30, 149, 119, 45, 82>>],
    [data |-> <<52, 141, 228, 200, 32, 109, 217, 178, 131, 164, 32, 76, 30, 202, 93, 45, 87, 78, 233, 99, 243, 197, 121, 106, 156, 205, 189, 27, 55, 139, 250, 231>>,
     out |-> <<157, 86, 213, 144, 71, 63, 177, 103, 241, 83, 205, 85, 69, 197, 21, 212, 217, 33, 36, 237, 148, 68, 138, 110, 179, 196, 75, 195, 245, 179, 114, 4>>],
    [data |-> <<156, 102, 252, 150, 84, 197, 77, 109, 34, 218, 51, 69, 248, 169, 39, 4, 201, 62, 112, 121, 80, 39, 28, 33, 182, 98, 174, 221, 220, 186, 171, 233>>,
     out |-> <<254, 47, 59, 217, 114, 44, 72, 188, 24, 241, 220, 192, 247, 69, 71, 51, 246, 219, 247, 77, 198, 57, 54, 7, 172, 151, 98, 70, 196, 138, 131, 84>>],
    [data |-> <<101, 222, 232, 250, 104, 61, 23, 171, 70, 178, 194, 167, 195, 17, 219, 153, 58, 131, 128, 216, 30, 204, 51, 127, 237, 114, 237, 222, 183, 220, 215, 128>>,
     out |-> <<186, 111, 220, 213, 241, 38, 145, 198, 140, 138, 246, 118, 171, 116, 34, 179, 116, 141, 130, 171, 122, 135, 93, 17, 132, 174, 99, 102, 206, 9, 239, 101>>],
    [data |-> <<45, 245, 53, 229, 90, 100, 229, 73, 1, 217, 181, 21, 164, 123, 71, 196, 61, 88, 49, 173, 58, 51, 117, 207, 249, 58, 141, 202, 14, 18, 173, 61>>,
     out |-> <<16, 216, 245, 27, 119, 243, 75, 250, 13, 143, 198, 147, 143, 109, 80, 136, 219, 109, 14, 178, 237, 34, 120, 96, 25, 196, 5, 43, 95, 90, 73, 89>>],
    [data |-> <<136, 232, 164, 130, 113, 249, 76, 41, 168, 111, 81, 194, 231, 101, 181, 39, 42, 145, 112, 180, 227, 253, 90, 203, 8, 161, 6, 113, 227, 134, 153, 7>>,
     out |-> <<172, 110, 74, 214, 111, 230, 69, 197, 78, 165, 245, 63, 3, 239, 217, 133, 120, 97, 73, 166, 181, 84, 37, 242, 139, 243, 94, 234, 228, 105, 8, 64>>],
    [data |-> <<216, 206, 32, 173, 149, 145, 238, 74, 177, 136, 239, 180, 197, 142, 43, 171, 213, 76, 196, 5, 60, 182, 244, 159, 232, 60, 97, 206, 213, 111, 236, 143>>,
     out |-> <<27, 143, 182, 153, 147, 37, 104, 62, 26, 63, 216, 52, 128, 150, 150, 226, 32, 153, 129, 224, 40, 181, 129, 138, 63, 78, 205, 150, 153, 133, 161, 108>>],
    [data |-> <<233, 246, 13, 168, 126, 235, 87, 180, 95, 16, 115, 118, 126, 151, 170, 225, 213, 247, 130, 216, 226, 28, 18, 48, 41, 160, 81, 109, 38, 28, 162, 105>>,
     out |-> <<26, 126, 183, 131, 203, 124, 245, 203, 82, 140, 100, 85, 209, 250, 201, 95, 74, 77, 154, 163, 45, 23, 242, 76, 230, 87, 81, 134, 169, 163, 47, 75>>],
    [data |-> <<124, 214, 73, 113, 45, 20, 52, 215, 6, 24, 60, 53, 192, 62, 119, 139, 153, 93, 241, 6, 160, 154, 61, 247, 209, 143, 182, 230, 113, 147, 18, 78>>,
     out |-> <<20, 187, 254, 68, 146, 163, 80, 61, 7, 10, 150, 121, 228, 181, 126, 190, 12, 185, 23, 152, 37, 102, 81, 130, 17, 178, 109, 82, 31, 244, 58, 195>>],
    [data |-> <<72, 169, 137, 66, 82, 175, 27, 150, 104, 61, 141, 243, 147, 111, 152, 36, 42, 122, 11, 182, 133, 29, 178, 159, 102, 159, 241, 24, 85, 124, 110, 163>>,
     out |-> <<249, 136, 64, 241, 235, 132, 129, 113, 33, 85, 192, 235, 41, 128, 13, 125, 29, 143, 164, 255, 240, 100, 68, 74, 143, 73, 203, 93, 63, 53, 70, 56>>],
    [data |-> <<4, 212, 91, 235, 155, 122, 94, 54, 57, 201, 160, 220, 226, 174, 108, 195, 231, 238, 194, 35, 176, 173, 252, 168, 113, 65, 182, 55, 0, 82, 170, 40>>,
     out |-> <<228, 236, 215, 217, 169, 120, 182, 83, 187, 147, 101, 119, 227, 253, 121, 206, 218, 118, 134, 207, 141, 209, 141, 74, 117, 154, 232, 80, 225, 154, 75, 163>>],
    [data |-> <<7, 220, 201, 89, 62, 95, 158, 111, 38, 91, 30, 161, 114, 102, 1, 22, 223, 114, 150, 131, 49, 79, 1, 0, 211, 218, 37, 151, 35, 250, 229, 217>>,
     out |-> <<137, 249, 149, 182, 223, 183, 174, 191, 91, 127, 201, 60, 62, 206, 58, 235, 160, 253, 229, 214, 179, 209, 161, 223, 232, 133, 248, 26, 40, 67, 40, 191>>],
    [data |-> <<117, 208, 103, 50, 130, 163, 103, 28, 37, 41, 201, 43, 43, 127, 189, 55, 115, 241, 205, 53, 134, 195, 45, 223, 152, 141, 148, 100, 147, 248, 113, 118>>,
     out |-> <<73, 220, 207, 99, 3, 71, 79, 18, 13, 219, 28, 192, 135, 109, 26, 106, 117, 206, 40, 41, 142, 252, 12, 111, 167, 101, 167, 61, 49, 193, 7, 207>>],
    [data |-> <<112, 114, 109, 218, 220, 198, 166, 167, 57, 13, 143, 18, 142, 176, 251, 63, 217, 201, 177, 209, 201, 224, 26, 195, 36, 32, 219, 79, 239, 179, 192, 140>>,
     out |-> <<166, 192, 114, 151, 1, 44, 31, 23, 42, 131, 38, 124, 134, 139, 171, 235, 118, 163, 32, 28, 126, 228, 52, 154, 32, 254, 122, 182, 174, 17, 129, 146>>],
    [data |-> <<147, 17, 86, 161, 209, 96, 174, 92, 228, 107, 169, 227, 239, 93, 183, 86, 48, 197, 167, 51, 229, 191, 51, 143, 181, 149, 94, 195, 231, 160, 5, 157>>,
     out |-> <<230, 208, 178, 166, 199, 116, 42, 109, 201, 92, 43, 48, 196, 42, 239, 219, 34, 120, 81, 87, 150, 240, 87, 209, 16, 39, 227, 37, 8, 125, 170, 26>>],
    [data |-> <<221, 216, 252, 56, 31, 81, 101, 244, 164, 240, 33, 126, 152, 93, 94, 225, 28, 75, 62, 122, 170, 193, 106, 22, 34, 49, 61, 51, 74, 150, 128, 79>>,
     out |-> <<144, 176, 171, 201, 64, 132, 118, 152, 112, 95, 57, 26, 208, 82, 186, 45, 143, 55, 136, 220, 10, 112, 211, 102, 93, 50, 177, 239, 67, 187, 148, 145>>],
    [data |-> <<138, 106, 6, 133, 125, 217, 131, 71, 233, 162, 163, 75, 38, 252, 106, 10, 109, 64, 58, 218, 249, 155, 22, 93, 54, 90, 25, 163, 194, 35, 99, 129>>,
     out |-> <<69, 232, 220, 55, 26, 255, 140, 117, 244, 246, 209, 232, 123, 136, 223, 249, 138, 21, 252, 62, 18, 121, 37, 109, 4, 212, 26, 12, 212, 166, 62, 232>>],
    [data |-> <<213, 221, 142, 6, 246, 24, 155, 211, 129, 236, 3, 182, 85, 254, 182, 21, 114, 170, 232, 230, 151, 251, 166, 237, 226, 240, 142, 25, 156, 88, 78, 215>>,
     out |-> <<99, 199, 90, 214, 236, 112, 208, 57, 20, 229, 13, 62, 130, 109, 4, 178, 90, 226, 22, 251, 240, 72, 109, 117, 95, 145, 222, 30, 242, 166, 166, 132>>],
    [data |-> <<102, 150, 142, 70, 90, 52, 85, 204, 107, 54, 213, 33, 114, 100, 159, 171, 123, 175, 90, 147, 183, 135, 85, 87, 75, 41, 121, 200, 168, 179, 217, 207>>,
     out |-> <<128, 15, 2, 176, 248, 253, 255, 156, 151, 122, 192, 139, 225, 207, 14, 69, 34, 176, 150, 12, 20, 166, 164, 246, 145, 211, 33, 197, 124, 121, 242, 149>>],
    [data |-> <<73, 243, 38, 95, 126, 181, 152, 192, 151, 26, 27, 39, 249, 179, 97, 236, 195, 91, 183, 47, 220, 97, 68, 239, 58, 121, 209, 48, 106, 77, 22, 42>>,
     out |-> <<178, 249, 25, 245, 82, 98, 253, 217, 16, 90, 107, 250, 107, 24, 233, 164, 126, 74, 37, 188, 237, 128, 108, 137, 180, 67, 97, 27, 107, 196, 122, 242>>],
    [data |-> <<231, 11, 42, 235, 89, 209, 147, 186, 107, 33, 23, 145, 243, 154, 168, 51, 210, 69, 118, 166, 126, 62, 190, 155, 171, 121, 193, 171, 71, 70, 223, 42>>,
     out |-> <<28, 127, 245, 60, 209, 51, 72, 149, 48, 238, 253, 135, 89, 231, 83, 196, 107, 218, 11, 3, 195, 88, 130, 133, 74, 174, 195, 90, 6, 219, 222, 61>>],
    [data |-> <<27, 4, 9, 174, 131, 223, 229, 127, 127, 103, 53, 152, 68, 123, 79, 195, 169, 135, 75, 68, 112, 116, 149, 228, 94, 4, 106, 121, 186, 134, 32, 225>>,
     out |-> <<204, 187, 37, 91, 32, 49, 11, 39, 122, 219, 7, 115, 153, 166, 239, 138, 223, 42, 231, 39, 87, 249, 152, 216, 135, 214, 133, 149, 82, 19, 82, 157>>],
    [data |-> <<61, 156, 153, 171, 56, 132, 10, 118, 207, 148, 74, 8, 70, 31, 197, 16, 78, 88, 181, 130, 175, 181, 34, 166, 151, 58, 163, 127, 165, 99, 134, 88>>,
     out |-> <<51, 109, 15, 195, 70, 135, 46, 39, 223, 39, 38, 30, 201, 17, 124, 36, 136, 242, 92, 81, 207, 247, 55, 244, 161, 142, 83, 226, 204, 100, 87, 86>>],
    [data |-> <<130, 56, 101, 157, 172, 48, 87, 2, 151, 216, 20, 255, 250, 9, 45, 48, 92, 230, 249, 19, 200, 192, 180, 144, 139, 123, 7, 144, 169, 0, 239, 53>>,
     out |-> <<228, 172, 63, 63, 22, 150, 89, 16, 186, 247, 15, 22, 202, 163, 139, 5, 50, 254, 12, 192, 60, 12, 118, 139, 2, 150, 45, 26, 74, 139, 229, 127>>],
    [data |-> <<109, 80, 98, 231, 245, 160, 186, 167, 106, 183, 59, 161, 243, 182, 114, 102, 99, 167, 91, 129, 147, 175, 230, 239, 247, 224, 28, 168, 171, 207, 144, 27>>,
     out |-> <<171, 228, 145, 26, 76, 192, 169, 25, 134, 79, 97, 37, 229, 225, 177, 154, 217, 117, 136, 226, 68, 132, 95, 165, 216, 187, 206, 31, 64, 199, 96, 122>>],
    [data |-> <<52, 185, 15, 187, 20, 189, 123, 80, 231, 182, 48, 160, 53, 33, 5, 251, 95, 128, 40, 111, 53, 113, 60, 161, 39, 32, 24, 199, 239, 215, 94, 208>>,
     out |-> <<173, 139, 89, 167, 195, 229, 82, 96, 102, 23, 59, 200, 117, 253, 213, 215, 147, 144, 108, 191, 158, 226, 174, 249, 226, 235, 223, 122, 1, 2, 212, 51>>],
    [data |-> <<15, 82, 240, 0, 171, 196, 200, 215, 196, 122, 16, 46, 46, 39, 137, 158, 13, 83, 217, 10, 23, 158, 240, 237, 181, 78, 239, 16, 184, 49, 217, 147>>,
     out |-> <<54, 152, 156, 4, 128, 228, 7, 175, 95, 200, 26, 129, 20, 192, 139, 146, 198, 21, 66, 58, 227, 30, 55, 35, 233, 17, 41, 57, 199, 120, 37, 26>>],
    [data |-> <<236, 128, 193, 212, 237, 51, 241, 171, 113, 110, 173, 19, 64, 191, 78, 180, 184, 195, 172, 195, 101, 214, 105, 37, 50, 125, 118, 253, 71, 157, 209, 61>>,
     out |-> <<103, 26, 217, 40, 233, 36, 191, 51, 148, 204, 61, 252, 53, 202, 156, 127, 180, 134, 111, 250, 151, 51, 253, 250, 203, 89, 131, 137, 225, 86, 114, 70>>],
    [data |-> <<248, 152, 67, 138, 154, 117, 175, 243, 103, 227, 99, 255, 41, 179, 56, 169, 100, 213, 163, 36, 226, 66, 198, 210, 248, 236, 200, 203, 134, 168, 243, 36>>,
     out |-> <<83, 78, 181, 172, 178, 39, 58, 19, 55, 147, 147, 168, 156, 64, 248, 239, 116, 149, 101, 178, 77, 74, 150, 126, 101, 93, 242, 220, 221, 44, 218, 100>>],
    [data |-> <<114, 221, 248, 77, 31, 223, 92, 197, 69, 172, 14, 237, 201, 150, 250, 91, 197, 205, 60, 98, 210, 121, 249, 34, 139, 252, 16, 246, 20, 246, 173, 240>>,
     out |-> <<7, 255, 254, 83, 88, 234, 128, 194, 242, 46, 49, 134, 62, 59, 233, 42, 32, 84, 48, 69, 187, 30, 57, 70, 114, 161, 238, 13, 83, 99, 130, 50>>],
    [data |-> <<183, 53, 221, 255, 108, 240, 39, 58, 125, 24, 58, 233, 175, 211, 32, 123, 159, 141, 249, 56, 155, 189, 121, 31, 4, 23, 107, 247, 26, 2, 219, 72>>,
     out |-> <<47, 133, 81, 88, 57, 78, 138, 68, 125, 96, 104, 36, 246, 84, 62, 54, 172, 133, 211, 205, 238, 191, 244, 180, 176, 46, 103, 50, 1, 157, 99, 116>>],
    [data |-> Rep(0, 32),
     out |-> <<158, 98, 145, 151, 12, 180, 77, 217, 64, 8, 199, 155, 202, 249, 216, 111, 24, 180, 180, 155, 165, 178, 160, 71, 129, 219, 113, 153, 237, 59, 158, 78>>],
    [data |-> <<60, 25, 202, 60, 202, 160, 4, 187, 220, 48, 38, 84, 133, 95, 82, 59, 129, 238, 60, 7, 37, 29, 13, 159, 234, 192, 163, 16, 24, 19, 232, 99>>,
     out |-> <<120, 248, 253, 197, 241, 113, 79, 50, 160, 127, 60, 94, 146, 111, 151, 253, 57, 67, 130, 202, 177, 12, 27, 146, 7, 150, 134, 152, 244, 96, 8, 164>>],
    [data |-> <<253, 108, 102, 96, 254, 205, 191, 219, 153, 198, 175, 150, 65, 109, 113, 26, 233, 251, 247, 189, 187, 127, 155, 99, 134, 233, 252, 48, 94, 143, 246, 184>>,
     out |-> <<232, 17, 121, 58, 149, 92, 174, 29, 102, 150, 97, 244, 234, 24, 229, 48, 85, 117, 249, 29, 177, 27, 212, 140, 206, 187, 250, 180, 63, 248, 106, 75>>],
    [data |-> <<253, 45, 102, 64, 63, 141, 180, 72, 152, 2, 9, 148, 0, 69, 16, 26, 161, 169, 35, 153, 168, 59, 146, 65, 134, 200, 136, 48, 88, 139, 118, 184>>,
     out |-> <<209, 202, 226, 196, 12, 194, 166, 138, 8, 123, 55, 140, 125, 19, 238, 28, 131, 166, 239, 144, 22, 198, 91, 9, 189, 120, 13, 102, 187, 154, 6, 91>>],
    [data |-> <<243, 191, 100, 72, 63, 189, 180, 96, 252, 2, 0, 157, 52, 7, 16, 59, 32, 0, 3, 144, 44, 59, 180, 65, 183, 200, 9, 178, 217, 178, 12, 189>>,
     out |-> <<41, 29, 167, 74, 198, 248, 163, 64, 101, 80, 160, 40, 56, 153, 184, 59, 164, 201, 57, 18, 179, 212, 147, 32, 86, 229, 60, 202, 116, 165, 116, 205>>],
    [data |-> <<252, 115, 93, 171, 250, 107, 91, 79, 91, 171, 187, 251, 220, 34, 21, 113, 52, 214, 124, 167, 223, 208, 204, 149, 199, 56, 72, 107, 152, 94, 124, 85>>,
     out |-> <<106, 60, 134, 172, 92, 94, 115, 73, 76, 209, 251, 222, 63, 103, 57, 140, 189, 198, 86, 120, 245, 148, 160, 242, 61, 68, 33, 245, 199, 155, 36, 172>>],
    [data |-> <<88, 88, 104, 148, 229, 13, 248, 145, 56, 39, 96, 0, 49, 42, 182, 5, 36, 128, 150, 52, 199, 71, 75, 15, 197, 166, 128, 115, 165, 64, 49, 98>>,
     out |-> <<48, 127, 183, 206, 255, 9, 140, 44, 24, 144, 223, 188, 114, 97, 220, 157, 166, 7, 121, 221, 66, 49, 188, 146, 42, 101, 98, 59, 29, 24, 62, 231>>],
    [data |-> <<35, 82, 214, 191, 8, 181, 221, 91, 70, 222, 137, 203, 63, 156, 235, 69, 33, 132, 65, 174, 216, 80, 122, 78, 91, 230, 33, 131, 76, 246, 7, 113>>,
     out |-> <<94, 122, 77, 205, 191, 107, 243, 248, 152, 87, 242, 114, 16, 220, 254, 159, 158, 254, 65, 170, 152, 109, 32, 60, 19, 134, 204, 20, 59, 146, 125, 23>>],
    [data |-> <<252, 188, 37, 180, 227, 167, 96, 67, 150, 109, 219, 158, 107, 19, 94, 151, 206, 169, 159, 161, 211, 57, 83, 65, 230, 54, 141, 207, 79, 243, 30, 79>>,
     out |-> <<166, 50, 243, 225, 196, 110, 108, 163, 87, 25, 143, 19, 170, 214, 203, 45, 237, 28, 32, 63, 141, 35, 52, 46, 93, 251, 148, 155, 27, 59, 80, 1>>],
    [data |-> <<236, 32, 37, 16, 99, 131, 96, 64, 144, 36, 129, 28, 73, 1, 78, 157, 78, 168, 218, 160, 147, 57, 19, 65, 130, 36, 4, 204, 71, 243, 26, 7>>,
     out |-> <<168, 20, 158, 180, 255, 205, 160, 52, 72, 241, 75, 179, 178, 105, 246, 101, 167, 16, 146, 210, 71, 53, 69, 250, 246, 248, 128, 141, 173, 251, 152, 168>>],
    [data |-> <<236, 96, 4, 16, 47, 144, 100, 0, 209, 36, 0, 44, 205, 36, 66, 253, 15, 40, 210, 2, 144, 120, 63, 65, 130, 65, 38, 12, 103, 243, 219, 3>>,
     out |-> <<181, 114, 154, 66, 55, 45, 53, 109, 246, 85, 108, 210, 97, 116, 237, 245, 1, 71, 24, 135, 3, 104, 179, 16, 174, 250, 58, 216, 96, 206, 93, 158>>],
    [data |-> <<54, 146, 16, 108, 139, 77, 56, 240, 156, 181, 88, 214, 251, 172, 20, 116, 130, 139, 166, 194, 92, 236, 169, 34, 84, 28, 149, 172, 173, 194, 159, 87>>,
     out |-> <<76, 117, 217, 10, 74, 216, 157, 132, 147, 183, 61, 101, 113, 220, 212, 112, 135, 152, 173, 118, 97, 152, 213, 55, 80, 248, 81, 124, 50, 174, 173, 232>>],
    [data |-> <<131, 240, 10, 157, 123, 91, 224, 67, 162, 189, 244, 106, 112, 136, 2, 243, 136, 154, 6, 231, 73, 12, 80, 241, 55, 170, 135, 207, 98, 133, 146, 235>>,
     out |-> <<151, 15, 214, 5, 32, 7, 122, 209, 31, 22, 167, 88, 219, 85, 165, 206, 92, 154, 54, 15, 165, 230, 102, 72, 103, 152, 163, 254, 127, 114, 15, 123>>],
    [data |-> <<4, 161, 230, 54, 27, 6, 38, 18, 58, 242, 23, 184, 188, 100, 69, 57, 168, 224, 29, 54, 201, 166, 134, 67, 185, 133, 74, 146, 25, 82, 10, 200>>,
     out |-> <<21, 174, 181, 31, 186, 201, 225, 106, 117, 216, 121, 43, 136, 250, 40, 194, 0, 0, 39, 123, 87, 197, 71, 248, 218, 207, 191, 162, 94, 225, 169, 136>>],
    [data |-> <<173, 166, 90, 123, 190, 220, 59, 62, 114, 231, 114, 198, 87, 209, 50, 138, 251, 170, 125, 114, 196, 96, 149, 249, 176, 61, 156, 175, 188, 163, 174, 199>>,
     out |-> <<76, 139, 46, 88, 40, 28, 222, 238, 243, 174, 222, 104, 108, 247, 130, 206, 18, 143, 7, 91, 73, 27, 195, 170, 131, 242, 149, 71, 134, 207, 117, 192>>],
    [data |-> <<173, 32, 90, 65, 38, 88, 26, 52, 2, 231, 82, 198, 85, 64, 48, 130, 224, 170, 64, 50, 68, 0, 149, 104, 32, 53, 4, 160, 52, 163, 174, 132>>,
     out |-> <<141, 39, 64, 174, 87, 206, 38, 223, 195, 10, 90, 143, 223, 162, 80, 143, 229, 152, 6, 215, 53, 28, 50, 74, 186, 24, 64, 168, 244, 64, 45, 168>>],
    [data |-> <<179, 32, 27, 1, 38, 0, 0, 240, 2, 103, 66, 63, 208, 0, 72, 242, 32, 184, 64, 144, 4, 9, 196, 96, 0, 100, 0, 240, 52, 225, 178, 140>>,
     out |-> <<41, 81, 200, 203, 188, 157, 165, 163, 160, 10, 238, 79, 186, 19, 87, 13, 169, 150, 58, 110, 173, 123, 104, 63, 36, 120, 81, 115, 162, 52, 115, 200>>],
    [data |-> <<185, 217, 129, 206, 240, 107, 169, 93, 231, 54, 142, 181, 142, 66, 16, 52, 209, 190, 15, 215, 85, 33, 224, 75, 19, 180, 227, 48, 158, 180, 21, 213>>,
     out |-> <<214, 44, 1, 30, 6, 98, 203, 98, 20, 122, 238, 243, 10, 120, 121, 67, 197, 185, 118, 102, 59, 183, 197, 26, 74, 76, 106, 92, 234, 41, 154, 157>>],
    [data |-> <<163, 242, 107, 242, 221, 222, 94, 17, 209, 159, 167, 125, 70, 144, 185, 136, 88, 149, 244, 126, 112, 164, 234, 32, 11, 56, 237, 253, 110, 29, 241, 11>>,
     out |-> <<2, 22, 171, 33, 54, 201, 78, 37, 16, 204, 143, 248, 169, 143, 22, 206, 16, 217, 132, 81, 176, 194, 50, 121, 176, 250, 177, 87, 183, 92, 223, 189>>],
    [data |-> <<189, 203, 69, 249, 9, 163, 76, 182, 86, 45, 72, 208, 3, 204, 76, 36, 156, 4, 89, 82, 215, 27, 226, 128, 20, 97, 254, 66, 52, 168, 195, 251>>,
     out |-> <<133, 172, 181, 143, 78, 75, 233, 142, 83, 207, 28, 93, 101, 172, 67, 13, 226, 10, 92, 152, 192, 77, 124, 169, 124, 110, 230, 214, 120, 136, 209, 86>>],
    [data |-> <<195, 74, 54, 12, 118, 109, 205, 63, 66, 232, 177, 208, 90, 42, 156, 84, 97, 33, 62, 113, 36, 250, 97, 34, 136, 60, 25, 184, 151, 32, 226, 42>>,
     out |-> <<110, 36, 206, 254, 124, 121, 99, 112, 130, 84, 8, 168, 16, 32, 162, 4, 94, 4, 103, 206, 197, 160, 44, 188, 166, 254, 91, 120, 78, 176, 42, 230>>],
    [data |-> <<48, 38, 190, 210, 242, 200, 215, 229, 110, 113, 141, 127, 97, 254, 233, 214, 178, 19, 135, 161, 154, 138, 218, 236, 231, 9, 71, 57, 189, 156, 76, 153>>,
     out |-> <<154, 43, 140, 156, 208, 171, 237, 193, 170, 185, 150, 133, 58, 113, 232, 34, 240, 108, 75, 79, 101, 186, 239, 210, 126, 24, 207, 153, 153, 188, 164, 138>>],
    [data |-> <<160, 68, 214, 28, 4, 155, 106, 52, 140, 252, 6, 6, 158, 145, 147, 203, 151, 130, 52, 237, 39, 144, 190, 141, 76, 205, 222, 54, 12, 68, 191, 18>>,
     out |-> <<9, 113, 75, 176, 93, 162, 207, 127, 75, 14, 213, 226, 192, 182, 208, 217, 176, 164, 113, 116, 143, 70, 164, 246, 161, 95, 64, 252, 244, 227, 127, 245>>],
    [data |-> <<138, 51, 65, 29, 69, 231, 177, 80, 154, 80, 207, 208, 23, 24, 38, 137, 196, 134, 79, 150, 143, 152, 27, 106, 135, 169, 133, 177, 205, 124, 8, 155>>,
     out |-> <<122, 200, 145, 33, 24, 80, 139, 251, 65, 42, 173, 171, 177, 146, 128, 209, 254, 159, 255, 123, 171, 144, 248, 169, 145, 25, 120, 84, 216, 182, 133, 4>>],
    [data |-> <<198, 57, 55, 93, 209, 232, 190, 238, 26, 163, 207, 145, 70, 125, 63, 181, 186, 94, 194, 150, 249, 226, 207, 63, 18, 248, 223, 94, 107, 232, 8, 186>>,
     out |-> <<71, 158, 221, 201, 198, 166, 170, 39, 121, 117, 66, 193, 162, 85, 101, 215, 141, 187, 27, 53, 235, 117, 212, 45, 59, 65, 10, 146, 229, 19, 193, 68>>],
    [data |-> <<122, 29, 196, 189, 222, 14, 148, 103, 37, 136, 18, 59, 12, 15, 76, 159, 203, 3, 51, 30, 177, 43, 50, 121, 172, 234, 217, 52, 205, 142, 52, 55>>,
     out |-> <<107, 83, 11, 192, 238, 187, 152, 83, 169, 160, 238, 163, 255, 158, 86, 33, 87, 34, 54, 239, 73, 181, 190, 255, 217, 122, 120, 240, 139, 125, 235, 96>>],
    [data |-> <<124, 135, 87, 45, 151, 29, 152, 210, 73, 50, 22, 103, 0, 204, 103, 215, 137, 167, 212, 33, 157, 194, 74, 67, 108, 97, 124, 223, 88, 69, 251, 159>>,
     out |-> <<66, 29, 7, 128, 164, 245, 151, 107, 15, 163, 7, 49, 127, 43, 1, 40, 113, 28, 57, 90, 216, 32, 149, 186, 4, 153, 178, 56, 44, 60, 236, 95>>],
    [data |-> <<132, 227, 226, 141, 202, 236, 111, 24, 249, 72, 216, 203, 234, 130, 36, 131, 116, 245, 93, 209, 20, 116, 226, 100, 190, 161, 104, 135, 94, 230, 232, 236>>,
     out |-> <<224, 161, 254, 39, 153, 178, 30, 18, 150, 69, 133, 73, 124, 98, 120, 227, 235, 174, 161, 21, 203, 87, 150, 242, 94, 239, 254, 94, 219, 176, 4, 10>>],
    [data |-> <<176, 50, 169, 157, 106, 123, 71, 160, 166, 127, 202, 119, 68, 74, 148, 175, 221, 77, 230, 76, 155, 201, 137, 180, 243, 23, 212, 164, 193, 224, 45, 90>>,
     out |-> <<52, 119, 46, 215, 38, 10, 130, 183, 236, 44, 111, 226, 197, 16, 230, 220, 36, 219, 147, 96, 36, 220, 250, 54, 235, 30, 107, 160, 23, 199, 65, 92>>],
    [data |-> <<241, 116, 94, 209, 225, 40, 29, 246, 43, 139, 228, 7, 238, 60, 170, 150, 179, 166, 68, 78, 162, 87, 169, 6, 126, 60, 30, 47, 45, 254, 111, 65>>,
     out |-> <<119, 233, 165, 120, 56, 146, 138, 79, 99, 155, 207, 45, 187, 242, 143, 102, 81, 69, 26, 81, 125, 134, 26, 187, 248, 60, 196, 2, 179, 115, 231, 144>>],
    [data |-> <<202, 159, 156, 0, 123, 120, 55, 100, 14, 219, 158, 48, 147, 71, 57, 174, 112, 251, 215, 113, 196, 227, 1, 225, 160, 99, 194, 92, 138, 223, 141, 222>>,
     out |-> <<109, 113, 171, 26, 117, 206, 47, 221, 230, 180, 227, 84, 31, 70, 77, 108, 236, 23, 153, 148, 117, 44, 73, 232, 194, 225, 123, 174, 46, 33, 24, 238>>],
    [data |-> <<152, 198, 34, 71, 191, 192, 148, 180, 105, 139, 184, 20, 192, 161, 12, 228, 147, 98, 43, 148, 193, 183, 211, 235, 92, 177, 253, 237, 173, 174, 196, 191>>,
     out |-> <<34, 86, 190, 85, 13, 220, 180, 132, 79, 140, 44, 249, 194, 234, 116, 196, 41, 247, 170, 195, 121, 203, 198, 164, 44, 5, 0, 32, 193, 130, 57, 126>>],
    [data |-> <<39, 104, 111, 25, 152, 152, 243, 15, 164, 153, 86, 206, 211, 221, 175, 142, 213, 246, 87, 93, 166, 133, 186, 224, 17, 20, 18, 6, 22, 8, 248, 148>>,
     out |-> <<182, 80, 142, 219, 36, 140, 82, 82, 253, 58, 92, 200, 8, 198, 51, 146, 214, 20, 225, 150, 195, 252, 89, 7, 119, 133, 66, 224, 195, 219, 223, 102>>],
    [data |-> <<225, 161, 221, 108, 126, 69, 189, 245, 121, 8, 55, 79, 82, 115, 77, 241, 29, 201, 221, 9, 1, 217, 60, 187, 172, 53, 216, 61, 216, 241, 118, 210>>,
     out |-> <<195, 159, 159, 251, 5, 17, 164, 210, 132, 122, 208, 225, 206, 235, 167, 121, 40, 244, 192, 13, 43, 102, 124, 181, 251, 220, 51, 244, 3, 119, 195, 43>>],
    [data |-> <<188, 41, 215, 48, 218, 211, 182, 183, 127, 19, 202, 175, 158, 127, 65, 53, 61, 125, 185, 235, 133, 143, 52, 92, 230, 103, 229, 25, 122, 57, 105, 100>>,
     out |-> <<4, 31, 11, 191, 108, 253, 62, 77, 220, 44, 68, 137, 75, 98, 250, 63, 167, 20, 222, 232, 245, 74, 241, 120, 164, 164, 158, 134, 234, 156, 99, 220>>],
    [data |-> <<30, 197, 3, 218, 25, 65, 54, 254, 226, 5, 125, 26, 167, 65, 131, 42, 34, 116, 184, 106, 13, 89, 39, 191, 132, 89, 86, 72, 209, 23, 112, 184>>,
     out |-> <<232, 249, 40, 149, 50, 90, 190, 213, 24, 76, 53, 182, 253, 125, 64, 152, 38, 64, 55, 235, 28, 60, 228, 110, 3, 100, 243, 214, 164, 51, 89, 143>>],
    [data |-> <<122, 61, 56, 192, 88, 17, 138, 221, 245, 136, 97, 170, 125, 77, 198, 94, 235, 138, 224, 6, 255, 70, 179, 97, 57, 27, 7, 100, 22, 108, 245, 13>>,
     out |-> <<223, 247, 188, 179, 225, 139, 224, 219, 179, 99, 90, 243, 53, 20, 212, 123, 227, 148, 20, 126, 166, 160, 115, 191, 50, 2, 202, 228, 60, 166, 122, 85>>],
    [data |-> <<14, 175, 44, 247, 116, 198, 123, 110, 115, 75, 18, 226, 111, 186, 70, 138, 84, 255, 185, 9, 41, 79, 216, 28, 8, 220, 72, 32, 185, 161, 76, 54>>,
     out |-> <<54, 153, 186, 47, 20, 80, 152, 13, 208, 118, 73, 81, 26, 127, 111, 223, 186, 10, 38, 111, 215, 141, 182, 133, 155, 161, 34, 158, 236, 175, 35, 82>>],
    [data |-> <<107, 34, 80, 203, 135, 147, 63, 3, 151, 87, 17, 95, 65, 122, 247, 111, 71, 172, 43, 62, 21, 60, 215, 223, 162, 112, 16, 213, 144, 35, 24, 178>>,
     out |-> <<24, 205, 11, 206, 253, 4, 95, 96, 195, 96, 122, 166, 83, 174, 191, 135, 131, 179, 138, 14, 109, 54, 31, 109, 233, 23, 119, 166, 93, 119, 185, 239>>],
    [data |-> <<170, 12, 161, 162, 12, 240, 214, 27, 27, 59, 223, 80, 119, 92, 208, 123, 251, 90, 156, 170, 235, 174, 218, 20, 153, 97, 108, 89, 239, 192, 206, 134>>,
     out |-> <<226, 150, 223, 203, 224, 99, 7, 10, 150, 245, 73, 100, 91, 34, 89, 91, 113, 91, 151, 148, 103, 148, 176, 131, 0, 178, 42, 208, 117, 142, 110, 33>>],
    [data |-> <<182, 155, 242, 210, 74, 192, 81, 236, 0, 110, 87, 185, 221, 254, 42, 179, 160, 247, 57, 68, 61, 171, 21, 178, 248, 20, 18, 188, 233, 90, 98, 244>>,
     out |-> <<169, 11, 57, 252, 59, 121, 142, 88, 116, 225, 219, 128, 53, 226, 112, 230, 225, 172, 204, 148, 224, 200, 52, 66, 5, 199, 107, 69, 176, 213, 27, 141>>],
    [data |-> <<1, 153, 98, 222, 92, 241, 57, 12, 105, 216, 176, 135, 129, 23, 44, 217, 179, 78, 156, 241, 147, 53, 191, 105, 51, 251, 3, 40, 108, 65, 123, 60>>,
     out |-> <<170, 126, 165, 137, 174, 117, 209, 228, 197, 213, 62, 130, 81, 214, 187, 89, 173, 50, 233, 157, 145, 179, 234, 112, 189, 206, 107, 156, 75, 210, 135, 131>>],
    [data |-> <<32, 161, 220, 104, 6, 81, 231, 22, 79, 204, 193, 227, 11, 108, 211, 90, 64, 123, 168, 22, 83, 123, 132, 136, 15, 126, 67, 58, 103, 3, 132, 108>>,
     out |-> <<74, 34, 63, 52, 126, 170, 23, 152, 26, 207, 30, 236, 25, 255, 251, 74, 219, 91, 145, 113, 120, 236, 175, 99, 210, 82, 47, 50, 190, 46, 20, 233>>],
    [data |-> <<10, 87, 34, 227, 86, 100, 252, 250, 216, 108, 189, 39, 71, 173, 116, 243, 96, 253, 132, 102, 183, 46, 96, 64, 7, 218, 227, 247, 102, 18, 242, 255>>,
     out |-> <<88, 28, 18, 196, 43, 66, 144, 88, 132, 213, 194, 79, 151, 174, 211, 86, 112, 126, 217, 11, 80, 83, 198, 243, 135, 62, 123, 176, 226, 138, 164, 144>>],
    [data |-> <<200, 57, 27, 117, 79, 212, 127, 48, 250, 208, 32, 186, 58, 18, 31, 10, 159, 77, 15, 117, 137, 216, 120, 105, 77, 249, 29, 123, 130, 206, 59, 130>>,
     out |-> <<254, 200, 113, 218, 64, 190, 234, 64, 213, 137, 0, 185, 61, 141, 245, 100, 200, 17, 165, 10, 115, 3, 11, 164, 16, 209, 159, 30, 27, 102, 109, 173>>],
    [data |-> <<65, 169, 54, 247, 205, 11, 141, 47, 193, 45, 158, 206, 14, 208, 231, 154, 229, 91, 140, 230, 2, 138, 116, 35, 134, 222, 26, 124, 150, 63, 252, 156>>,
     out |-> <<159, 125, 206, 51, 170, 67, 95, 41, 197, 232, 100, 148, 197, 238, 234, 154, 156, 61, 246, 149, 146, 60, 140, 106, 199, 204, 30, 78, 58, 190, 182, 189>>]
    >>

\* hashlib.sha3_256(text).digest() for the key texts the model reaches; a text
\* is looked up by its length, byte sum and position-weighted byte sum
Sha3_256TextTable == <<
    [digest |-> <<2983, 141029, 209943081>>,
     out |-> <<66, 101, 218, 200, 143, 181, 17, 155, 207, 54, 151, 82, 22, 232, 77, 176, 23, 14, 129, 169, 111, 80, 83, 229, 105, 237, 70, 11, 136, 159, 23, 174>>],
    [digest |-> <<2740, 128037, 176305152>>,
     out |-> <<22, 185, 187, 221, 157, 160, 92, 228, 100, 125, 86, 179, 106, 49, 214, 205, 210, 179, 166, 7, 175, 49, 217, 146, 180, 6, 222, 93, 239, 90, 175, 90>>],
    [digest |-> <<2998, 140330, 210967560>>,
     out |-> <<90, 111, 247, 109, 181, 163, 160, 26, 51, 59, 68, 229, 182, 130, 28, 134, 171, 123, 127, 243, 251, 206, 88, 70, 210, 247, 168, 12, 90, 168, 242, 143>>],
    [digest |-> <<3007, 142257, 213575808>>,
     out |-> <<20, 3, 209, 167, 97, 146, 35, 94, 167, 27, 156, 34, 178, 5, 31, 61, 8, 130, 79, 218, 30, 79, 217, 155, 251, 40, 47, 40, 250, 211, 144, 120>>],
    [digest |-> <<2746, 128239, 176914674>>,
     out |-> <<16, 87, 14, 131, 47, 223, 40, 119, 15, 58, 113, 181, 201, 165, 198, 0, 121, 203, 178, 204, 162, 175, 117, 93, 40, 242, 169, 89, 189, 106, 104, 140>>],
    [digest |-> <<2994, 140161, 210444084>>,
     out |-> <<84, 73, 61, 226, 59, 121, 23, 67, 109, 193, 218, 193, 243, 78, 106, 167, 245, 220, 39, 241, 78, 73, 169, 50, 77, 79, 101, 13, 39, 47, 110, 40>>],
    [digest |-> <<2995, 141559, 211597185>>,
     out |-> <<170, 11, 89, 38, 14, 232, 239, 228, 117, 2, 126, 220, 1, 244, 27, 213, 204, 9, 123, 110, 34, 163, 135, 107, 101, 235, 236, 224, 239, 222, 234, 247>>],
    [digest |-> <<2746, 128261, 176969930>>,
     out |-> <<206, 202, 132, 197, 178, 193, 220, 225, 245, 187, 214, 58, 137, 73, 156, 78, 233, 218, 48, 181, 7, 52, 2, 155, 183, 116, 183, 254, 234, 158, 169, 246>>],
    [digest |-> <<2981, 139548, 208624727>>,
     out |-> <<222, 8, 154, 130, 97, 132, 219, 45, 64, 111, 84, 141, 174, 186, 196, 57, 201, 58, 247, 96, 241, 143, 167, 132, 62, 251, 6, 211, 214, 192, 29, 116>>],
    [digest |-> <<2983, 141132, 210098248>>,
     out |-> <<182, 48, 148, 182, 208, 76, 133, 87, 152, 110, 254, 234, 115, 66, 161, 210, 191, 213, 48, 15, 14, 9, 109, 59, 166, 102, 143, 205, 38, 169, 132, 174>>],
    [digest |-> <<2740, 128140, 176447683>>,
     out |-> <<123, 159, 128, 27, 233, 47, 38, 107, 108, 200, 198, 64, 199, 220, 1, 52, 250, 44, 17, 143, 230, 122, 12, 148, 220, 234, 252, 231, 212, 3, 227, 67>>],
    [digest |-> <<2998, 140433, 211123507>>,
     out |-> <<78, 29, 125, 155, 105, 85, 220, 29, 76, 94, 85, 140, 139, 253, 208, 142, 240, 169, 243, 5, 240, 160, 120, 235, 9, 9, 61, 181, 33, 22, 180, 64>>],
    [digest |-> <<3007, 142360, 213732223>>,
     out |-> <<78, 46, 57, 64, 6, 255, 137, 172, 237, 35, 27, 52, 30, 86, 101, 226, 196, 115, 212, 162, 142, 154, 80, 62, 193, 10, 193, 31, 23, 101, 230, 96>>],
    [digest |-> <<2746, 128342, 177057517>>,
     out |-> <<164, 254, 39, 7, 170, 90, 80, 244, 28, 75, 142, 105, 50, 231, 182, 128, 143, 223, 155, 217, 57, 153, 208, 35, 36, 227, 178, 222, 35, 57, 238, 107>>],
    [digest |-> <<2994, 140264, 210599823>>,
     out |-> <<129, 136, 3, 114, 150, 70, 120, 167, 160, 178, 240, 70, 233, 36, 63, 95, 52, 253, 38, 251, 90, 100, 22, 66, 204, 5, 12, 226, 164, 77, 240, 254>>],
    [digest |-> <<2995, 141662, 211752976>>,
     out |-> <<181, 124, 33, 26, 84, 223, 236, 45, 167, 219, 99, 40, 178, 39, 206, 203, 248, 10, 231, 133, 226, 206, 243, 122, 76, 91, 245, 196, 75, 81, 9, 202>>],
    [digest |-> <<2746, 128364, 177112773>>,
     out |-> <<14, 168, 66, 214, 213, 24, 198, 166, 224, 0, 99, 120, 238, 248, 235, 73, 200, 214, 61, 80, 43, 65, 254, 239, 13, 145, 208, 89, 181, 64, 47, 78>>],
    [digest |-> <<2981, 139651, 208779790>>,
     out |-> <<124, 172, 59, 21, 184, 131, 77, 43, 57, 248, 255, 175, 200, 61, 210, 197, 96, 29, 91, 81, 94, 124, 189, 148, 196, 3, 196, 72, 211, 79, 179, 175>>]
    >>

\* hashlib.sha3_512(data).digest() for the 64-byte inputs the model reaches
Sha3_512Table == <<
    [data |-> <<66, 101, 218, 200, 143, 181, 17, 155, 207, 54, 151, 82, 22, 232, 77, 176, 23, 14, 129, 169, 111, 80, 83, 229, 105, 237, 70, 11, 136, 159, 23, 174, 1, 1, 1, 1, 1, 1, 1, 1, 1, 1, 1, 1, 1, 1, 1, 1, 1, 1, 1, 1, 1, 1, 1, 1, 1, 1, 1, 1, 1, 1, 1, 1>>,
     out |-> <<72, 188, 202, 26, 183, 13, 78, 151, 230, 244, 230, 38, 15, 252, 231, 82, 129, 119, 135, 202, 53, 84, 78, 218, 113, 209, 85, 170, 3, 166, 104, 76, 17, 236, 139, 126, 203, 175, 139, 139, 201, 173, 43, 27, 150, 114, 104, 168, 94, 10, 155, 68, 178, 56, 66, 8, 73, 152, 116, 52, 28, 231, 5, 161>>],
    [data |-> <<66, 101, 218, 200, 143, 181, 17, 155, 207, 54, 151, 82, 22, 232, 77, 176, 23, 14, 129, 169, 111, 80, 83, 229, 105, 237, 70, 11, 136, 159, 23, 174, 2, 2, 2, 2, 2, 2, 2, 2, 2, 2, 2, 2, 2, 2, 2, 2, 2, 2, 2, 2, 2, 2, 2, 2, 2, 2, 2, 2, 2, 2, 2, 2>>,
     out |-> <<170, 48, 163, 170, 183, 40, 32, 28, 29, 176, 229, 144, 71, 13, 71, 26, 126, 40, 76, 215, 63, 238, 28, 143, 47, 193, 251, 212, 35, 218, 158, 246, 254, 234, 28, 146, 92, 168, 29, 166, 137, 37, 159, 41, 235, 100, 212, 81, 0, 85, 131, 5, 107, 214, 169, 237, 148, 135, 47, 166, 249, 37, 9, 186>>],
    [data |-> <<66, 101, 218, 200, 143, 181, 17, 155, 207, 54, 151, 82, 22, 232, 77, 176, 23, 14, 129, 169, 111, 80, 83, 229, 105, 237, 70, 11, 136, 159, 23, 174, 3, 3, 3, 3, 3, 3, 3, 3, 3, 3, 3, 3, 3, 3, 3, 3, 3, 3, 3, 3, 3, 3, 3, 3, 3, 3, 3, 3, 3, 3, 3, 3>>,
     out |-> <<132, 102, 48, 71, 81, 27, 17, 240, 91, 64, 37, 59, 19, 142, 125, 42, 60, 174, 131, 217, 194, 74, 234, 20, 48, 9, 43, 145, 198, 51, 35, 241, 33, 130, 30, 61, 84, 40, 234, 168, 200, 50, 103, 199, 224, 74, 119, 109, 79, 177, 14, 71, 134, 70, 234, 245, 84, 109, 174, 65, 16, 37, 91, 39>>],
    [data |-> <<22, 185, 187, 221, 157, 160, 92, 228, 100, 125, 86, 179, 106, 49, 214, 205, 210, 179, 166, 7, 175, 49, 217, 146, 180, 6, 222, 93, 239, 90, 175, 90, 1, 1, 1, 1, 1, 1, 1, 1, 1, 1, 1, 1, 1, 1, 1, 1, 1, 1, 1, 1, 1, 1, 1, 1, 1, 1, 1, 1, 1, 1, 1, 1>>,
     out |-> <<84, 34, 137, 131, 141, 116, 65, 4, 248, 135, 191, 181, 119, 33, 159, 99, 61, 205, 118, 171, 115, 168, 118, 229, 245, 101, 235, 17, 170, 4, 19, 145, 178, 198, 45, 84, 53, 6, 43, 136, 250, 13, 96, 99, 206, 23, 183, 111, 220, 231, 43, 18, 124, 180, 125, 53, 202, 87, 122, 107, 84, 135, 63, 56>>],
    [data |-> <<22, 185, 187, 221, 157, 160, 92, 228, 100, 125, 86, 179, 106, 49, 214, 205, 210, 179, 166, 7, 175, 49, 217, 146, 180, 6, 222, 93, 239, 90, 175, 90, 2, 2, 2, 2, 2, 2, 2, 2, 2, 2, 2, 2, 2, 2, 2, 2, 2, 2, 2, 2, 2, 2, 2, 2, 2, 2, 2, 2, 2, 2, 2, 2>>,
     out |-> <<62, 243, 185, 56, 46, 100, 168, 145, 216, 4, 218, 227, 203, 9, 147, 114, 19, 140, 234, 1, 12, 201, 143, 190, 227, 49, 135, 135, 210, 75, 120, 150, 30, 156, 227, 134, 62, 59, 236, 38, 247, 121, 157, 72, 2, 27, 202, 221, 69, 147, 224, 2, 184, 132, 250, 31, 126, 188, 205, 10, 74, 43, 45, 163>>],
    [data |-> <<22, 185, 187, 221, 157, 160, 92, 228, 100, 125, 86, 179, 106, 49, 214, 205, 210, 179, 166, 7, 175, 49, 217, 146, 180, 6, 222, 93, 239, 90, 175, 90, 3, 3, 3, 3, 3, 3, 3, 3, 3, 3, 3, 3, 3, 3, 3, 3, 3, 3, 3, 3, 3, 3, 3, 3, 3, 3, 3, 3, 3, 3, 3, 3>>,
     out |-> <<77, 243, 245, 59, 249, 89, 49, 96, 38, 141, 235, 192, 28, 183, 147, 182, 9, 114, 160, 192, 95, 1, 176, 150, 200, 103, 188, 165, 141, 79, 51, 174, 51, 92, 198, 38, 115, 223, 248, 253, 139, 99, 83, 34, 182, 36, 116, 104, 72, 21, 5, 199, 193, 102, 237, 97, 162, 188, 65, 140, 253, 65, 197, 97>>],
    [data |-> <<90, 111, 247, 109, 181, 163, 160, 26, 51, 59, 68, 229, 182, 130, 28, 134, 171, 123, 127, 243, 251, 206, 88, 70, 210, 247, 168, 12, 90, 168, 242, 143, 1, 1, 1, 1, 1, 1, 1, 1, 1, 1, 1, 1, 1, 1, 1, 1, 1, 1, 1, 1, 1, 1, 1, 1, 1, 1, 1, 1, 1, 1, 1, 1>>,
     out |-> <<160, 121, 186, 215, 13, 13, 194, 89, 143, 88, 235, 129, 227, 65, 231, 100, 227, 132, 160, 176, 86, 230, 230, 238, 69, 174, 80, 119, 238, 196, 18, 192, 172, 61, 91, 226, 177, 98, 245, 57, 190, 166, 242, 185, 11, 20, 215, 160, 15, 219, 64, 139, 103, 22, 79, 163, 156, 217, 71, 210, 42, 111, 154, 1>>],
    [data |-> <<90, 111, 247, 109, 181, 163, 160, 26, 51, 59, 68, 229, 182, 130, 28, 134, 171, 123, 127, 243, 251, 206, 88, 70, 210, 247, 168, 12, 90, 168, 242, 143, 2, 2, 2, 2, 2, 2, 2, 2, 2, 2, 2, 2, 2, 2, 2, 2, 2, 2, 2, 2, 2, 2, 2, 2, 2, 2, 2, 2, 2, 2, 2, 2>>,
     out |-> <<91, 184, 12, 130, 132, 116, 1, 8, 77, 85, 87, 76, 185, 3, 108, 100, 44, 41, 200, 239, 58, 203, 122, 154, 122, 15, 105, 200, 15, 96, 153, 197, 123, 54, 183, 181, 175, 227, 101, 104, 8, 33, 151, 20, 74, 158, 50, 19, 112, 43, 189, 25, 184, 223, 221, 101, 47, 195, 206, 215, 92, 18, 211, 182>>],
    [data |-> <<90, 111, 247, 109, 181, 163, 160, 26, 51, 59, 68, 229, 182, 130, 28, 134, 171, 123, 127, 243, 251, 206, 88, 70, 210, 247, 168, 12, 90, 168, 242, 143, 3, 3, 3, 3, 3, 3, 3, 3, 3, 3, 3, 3, 3, 3, 3, 3, 3, 3, 3, 3, 3, 3, 3, 3, 3, 3, 3, 3, 3, 3, 3, 3>>,
     out |-> <<52, 251, 251, 206, 61, 72, 78, 148, 72, 33, 100, 187, 54, 23, 12, 206, 109, 129, 41, 78, 176, 15, 217, 227, 107, 187, 212, 59, 103, 56, 185, 1, 75, 182, 40, 58, 227, 32, 79, 150, 175, 110, 152, 56, 76, 93, 25, 177, 26, 0, 33, 177, 8, 106, 104, 56, 134, 139, 162, 84, 136, 17, 127, 228>>],
    [data |-> <<20, 3, 209, 167, 97, 146, 35, 94, 167, 27, 156, 34, 178, 5, 31, 61, 8, 130, 79, 218, 30, 79, 217, 155, 251, 40, 47, 40, 250, 211, 144, 120, 1, 1, 1, 1, 1, 1, 1, 1, 1, 1, 1, 1, 1, 1, 1, 1, 1, 1, 1, 1, 1, 1, 1, 1, 1, 1, 1, 1, 1, 1, 1, 1>>,
     out |-> <<234, 57, 186, 135, 52, 234, 145, 155, 63, 14, 100, 157, 45, 85, 35, 42, 77, 39, 157, 215, 155, 187, 27, 200, 42, 135, 72, 98, 101, 163, 239, 229, 183, 51, 255, 32, 239, 39, 145, 50, 199, 151, 145, 143, 99, 77, 25, 62, 71, 61, 174, 216, 73, 134, 93, 202, 180, 55, 220, 66, 130, 64, 155, 17>>],
    [data |-> <<20, 3, 209, 167, 97, 146, 35, 94, 167, 27, 156, 34, 178, 5, 31, 61, 8, 130, 79, 218, 30, 79, 217, 155, 251, 40, 47, 40, 250, 211, 144, 120, 2, 2, 2, 2, 2, 2, 2, 2, 2, 2, 2, 2, 2, 2, 2, 2, 2, 2, 2, 2, 2, 2, 2, 2, 2, 2, 2, 2, 2, 2, 2, 2>>,
     out |-> <<225, 234, 242, 247, 1, 18, 51, 91, 132, 214, 239, 181, 104, 170, 244, 193, 229, 107, 199, 127, 130, 233, 196, 155, 61, 203, 79, 88, 187, 62, 105, 149, 160, 116, 184, 99, 74, 235, 164, 119, 205, 228, 67, 239, 28, 40, 114, 112, 138, 44, 32, 193, 223, 14, 146, 25, 177, 169, 64, 69, 126, 227, 152, 169>>],
    [data |-> <<20, 3, 209, 167, 97, 146, 35, 94, 167, 27, 156, 34, 178, 5, 31, 61, 8, 130, 79, 218, 30, 79, 217, 155, 251, 40, 47, 40, 250, 211, 144, 120, 3, 3, 3, 3, 3, 3, 3, 3, 3, 3, 3, 3, 3, 3, 3, 3, 3, 3, 3, 3, 3, 3, 3, 3, 3, 3, 3, 3, 3, 3, 3, 3>>,
     out |-> <<216, 163, 157, 172, 67, 61, 227, 77, 140, 126, 226, 207, 90, 8, 134, 158, 143, 143, 196, 73, 222, 146, 96, 168, 59, 218, 72, 38, 155, 50, 153, 75, 24, 186, 213, 245, 231, 253, 45, 236, 210, 215, 120, 227, 103, 60, 137, 218, 182, 179, 195, 15, 224, 156, 196, 228, 229, 81, 197, 150, 20, 6, 103, 128>>],
    [data |-> <<16, 87, 14, 131, 47, 223, 40, 119, 15, 58, 113, 181, 201, 165, 198, 0, 121, 203, 178, 204, 162, 175, 117, 93, 40, 242, 169, 89, 189, 106, 104, 140, 1, 1, 1, 1, 1, 1, 1, 1, 1, 1, 1, 1, 1, 1, 1, 1, 1, 1, 1, 1, 1, 1, 1, 1, 1, 1, 1, 1, 1, 1, 1, 1>>,
     out |-> <<159, 104, 220, 183, 85, 9, 194, 217, 248, 229, 102, 143, 117, 45, 194, 238, 192, 245, 193, 123, 216, 246, 115, 54, 244, 182, 186, 170, 35, 55, 113, 193, 134, 81, 134, 124, 41, 79, 210, 64, 130, 234, 171, 93, 215, 76, 64, 64, 80, 108, 125, 151, 248, 152, 148, 105, 21, 80, 177, 26, 154, 217, 14, 144>>],
    [data |-> <<16, 87, 14, 131, 47, 223, 40, 119, 15, 58, 113, 181, 201, 165, 198, 0, 121, 203, 178, 204, 162, 175, 117, 93, 40, 242, 169, 89, 189, 106, 104, 140, 2, 2, 2, 2, 2, 2, 2, 2, 2, 2, 2, 2, 2, 2, 2, 2, 2, 2, 2, 2, 2, 2, 2, 2, 2, 2, 2, 2, 2, 2, 2, 2>>,
     out |-> <<6, 128, 51, 47, 122, 147, 53, 219, 68, 239, 228, 46, 6, 92, 57, 206, 235, 123, 56, 88, 50, 198, 243, 152, 229, 5, 236, 95, 108, 218, 224, 79, 200, 148, 78, 238, 0, 115, 222, 107, 245, 26, 6, 2, 190, 86, 59, 29, 72, 127, 94, 36, 75, 153, 30, 254, 123, 28, 253, 207, 91, 189, 193, 232>>],
    [data |-> <<16, 87, 14, 131, 47, 223, 40, 119, 15, 58, 113, 181, 201, 165, 198, 0, 121, 203, 178, 204, 162, 175, 117, 93, 40, 242, 169, 89, 189, 106, 104, 140, 3, 3, 3, 3, 3, 3, 3, 3, 3, 3, 3, 3, 3, 3, 3, 3, 3, 3, 3, 3, 3, 3, 3, 3, 3, 3, 3, 3, 3, 3, 3, 3>>,
     out |-> <<99, 138, 209, 95, 149, 172, 56, 193, 24, 93, 124, 162, 56, 208, 186, 98, 51, 111, 122, 181, 204, 67, 133, 172, 135, 147, 45, 170, 249, 201, 161, 210, 140, 15, 181, 126, 152, 56, 201, 177, 171, 55, 75, 136, 54, 107, 142, 114, 182, 245, 185, 177, 226, 115, 254, 83, 163, 35, 68, 50, 22, 66, 139, 38>>],
    [data |-> <<84, 73, 61, 226, 59, 121, 23, 67, 109, 193, 218, 193, 243, 78, 106, 167, 245, 220, 39, 241, 78, 73, 169, 50, 77, 79, 101, 13, 39, 47, 110, 40, 1, 1, 1, 1, 1, 1, 1, 1, 1, 1, 1, 1, 1, 1, 1, 1, 1, 1, 1, 1, 1, 1, 1, 1, 1, 1, 1, 1, 1, 1, 1, 1>>,
     out |-> <<84, 68, 212, 250, 199, 34, 210, 120, 194, 110, 65, 91, 22, 122, 106, 93, 206, 126, 109, 155, 83, 75, 22, 76, 10, 254, 109, 222, 133, 85, 70, 232, 115, 133, 143, 98, 221, 67, 234, 11, 64, 60, 118, 96, 180, 36, 245, 229, 141, 107, 74, 78, 63, 207, 129, 234, 210, 134, 143, 109, 12, 9, 198, 236>>],
    [data |-> <<84, 73, 61, 226, 59, 121, 23, 67, 109, 193, 218, 193, 243, 78, 106, 167, 245, 220, 39, 241, 78, 73, 169, 50, 77, 79, 101, 13, 39, 47, 110, 40, 2, 2, 2, 2, 2, 2, 2, 2, 2, 2, 2, 2, 2, 2, 2, 2, 2, 2, 2, 2, 2, 2, 2, 2, 2, 2, 2, 2, 2, 2, 2, 2>>,
     out |-> <<136, 184, 251, 131, 179, 246, 216, 149, 4, 196, 81, 189, 224, 228, 250, 133, 201, 123, 1, 7, 250, 203, 197, 195, 63, 146, 201, 89, 188, 176, 217, 107, 107, 227, 171, 11, 60, 147, 180, 202, 106, 97, 31, 201, 186, 216, 106, 50, 173, 109, 15, 229, 55, 235, 244, 180, 37, 41, 235, 119, 0, 157, 127, 192>>],
    [data |-> <<84, 73, 61, 226, 59, 121, 23, 67, 109, 193, 218, 193, 243, 78, 106, 167, 245, 220, 39, 241, 78, 73, 169, 50, 77, 79, 101, 13, 39, 47, 110, 40, 3, 3, 3, 3, 3, 3, 3, 3, 3, 3, 3, 3, 3, 3, 3, 3, 3, 3, 3, 3, 3, 3, 3, 3, 3, 3, 3, 3, 3, 3, 3, 3>>,
     out |-> <<52, 141, 228, 200, 32, 109, 217, 178, 131, 164, 32, 76, 30, 202, 93, 45, 87, 78, 233, 99, 243, 197, 121, 106, 156, 205, 189, 27, 55, 139, 250, 231, 128, 203, 172, 82, 197, 82, 7, 119, 38, 73, 15, 218, 93, 12, 111, 130, 70, 0, 170, 28, 99, 1, 215, 153, 187, 133, 122, 61, 23, 54, 137, 247>>],
    [data |-> <<170, 11, 89, 38, 14, 232, 239, 228, 117, 2, 126, 220, 1, 244, 27, 213, 204, 9, 123, 110, 34, 163, 135, 107, 101, 235, 236, 224, 239, 222, 234, 247, 1, 1, 1, 1, 1, 1, 1, 1, 1, 1, 1, 1, 1, 1, 1, 1, 1, 1, 1, 1, 1, 1, 1, 1, 1, 1, 1, 1, 1, 1, 1, 1>>,
     out |-> <<45, 245, 53, 229, 90, 100, 229, 73, 1, 217, 181, 21, 164, 123, 71, 196, 61, 88, 49, 173, 58, 51, 117, 207, 249, 58, 141, 202, 14, 18, 173, 61, 139, 238, 161, 159, 65, 193, 241, 188, 228, 138, 132, 185, 233, 74, 16, 187, 52, 201, 198, 231, 162, 142, 246, 150, 37, 138, 202, 209, 204, 50, 193, 4>>],
    [data |-> <<170, 11, 89, 38, 14, 232, 239, 228, 117, 2, 126, 220, 1, 244, 27, 213, 204, 9, 123, 110, 34, 163, 135, 107, 101, 235, 236, 224, 239, 222, 234, 247, 2, 2, 2, 2, 2, 2, 2, 2, 2, 2, 2, 2, 2, 2, 2, 2, 2, 2, 2, 2, 2, 2, 2, 2, 2, 2, 2, 2, 2, 2, 2, 2>>,
     out |-> <<233, 246, 13, 168, 126, 235, 87, 180, 95, 16, 115, 118, 126, 151, 170, 225, 213, 247, 130, 216, 226, 28, 18, 48, 41, 160, 81, 109, 38, 28, 162, 105, 135, 77, 52, 233, 238, 68, 31, 27, 68, 49, 247, 174, 214, 88, 24, 176, 235, 139, 206, 223, 71, 199, 195, 173, 53, 83, 166, 147, 143, 31, 253, 138>>],
    [data |-> <<170, 11, 89, 38, 14, 232, 239, 228, 117, 2, 126, 220, 1, 244, 27, 213, 204, 9, 123, 110, 34, 163, 135, 107, 101, 235, 236, 224, 239, 222, 234, 247, 3, 3, 3, 3, 3, 3, 3, 3, 3, 3, 3, 3, 3, 3, 3, 3, 3, 3, 3, 3, 3, 3, 3, 3, 3, 3, 3, 3, 3, 3, 3, 3>>,
     out |-> <<4, 212, 91, 235, 155, 122, 94, 54, 57, 201, 160, 220, 226, 174, 108, 195, 231, 238, 194, 35, 176, 173, 252, 168, 113, 65, 182, 55, 0, 82, 170, 40, 44, 212, 113, 152, 110, 190, 197, 31, 113, 4, 221, 136, 95, 213, 72, 80, 38, 70, 230, 254, 238, 204, 209, 73, 89, 227, 20, 236, 185, 5, 167, 101>>],
    [data |-> <<206, 202, 132, 197, 178, 193, 220, 225, 245, 187, 214, 58, 137, 73, 156, 78, 233, 218, 48, 181, 7, 52, 2, 155, 183, 116, 183, 254, 234, 158, 169, 246, 1, 1, 1, 1, 1, 1, 1, 1, 1, 1, 1, 1, 1, 1, 1, 1, 1, 1, 1, 1, 1, 1, 1, 1, 1, 1, 1, 1, 1, 1, 1, 1>>,
     out |-> <<112, 114, 109, 218, 220, 198, 166, 167, 57, 13, 143, 18, 142, 176, 251, 63, 217, 201, 177, 209, 201, 224, 26, 195, 36, 32, 219, 79, 239, 179, 192, 140, 157, 149, 33, 87, 134, 214, 22, 12, 206, 134, 19, 47, 103, 85, 214, 3, 124, 222, 30, 228, 227, 195, 249, 136, 177, 101, 71, 98, 52, 12, 231, 69>>],
    [data |-> <<206, 202, 132, 197, 178, 193, 220, 225, 245, 187, 214, 58, 137, 73, 156, 78, 233, 218, 48, 181, 7, 52, 2, 155, 183, 116, 183, 254, 234, 158, 169, 246, 2, 2, 2, 2, 2, 2, 2, 2, 2, 2, 2, 2, 2, 2, 2, 2, 2, 2, 2, 2, 2, 2, 2, 2, 2, 2, 2, 2, 2, 2, 2, 2>>,
     out |-> <<138, 106, 6, 133, 125, 217, 131, 71, 233, 162, 163, 75, 38, 252, 106, 10, 109, 64, 58, 218, 249, 155, 22, 93, 54, 90, 25, 163, 194, 35, 99, 129, 48, 95, 33, 45, 144, 115, 208, 41, 116, 236, 44, 49, 101, 160, 163, 69, 125, 76, 16, 88, 101, 87, 232, 15, 110, 133, 234, 68, 20, 157, 76, 147>>],
    [data |-> <<206, 202, 132, 197, 178, 193, 220, 225, 245, 187, 214, 58, 137, 73, 156, 78, 233, 218, 48, 181, 7, 52, 2, 155, 183, 116, 183, 254, 234, 158, 169, 246, 3, 3, 3, 3, 3, 3, 3, 3, 3, 3, 3, 3, 3, 3, 3, 3, 3, 3, 3, 3, 3, 3, 3, 3, 3, 3, 3, 3, 3, 3, 3, 3>>,
     out |-> <<73, 243, 38, 95, 126, 181, 152, 192, 151, 26, 27, 39, 249, 179, 97, 236, 195, 91, 183, 47, 220, 97, 68, 239, 58, 121, 209, 48, 106, 77, 22, 42, 236, 101, 117, 5, 209, 107, 36, 247, 156, 17, 51, 110, 176, 56, 71, 202, 63, 70, 168, 197, 26, 116, 144, 91, 158, 114, 61, 101, 149, 6, 251, 193>>],
    [data |-> <<222, 8, 154, 130, 97, 132, 219, 45, 64, 111, 84, 141, 174, 186, 196, 57, 201, 58, 247, 96, 241, 143, 167, 132, 62, 251, 6, 211, 214, 192, 29, 116, 1, 1, 1, 1, 1, 1, 1, 1, 1, 1, 1, 1, 1, 1, 1, 1, 1, 1, 1, 1, 1, 1, 1, 1, 1, 1, 1, 1, 1, 1, 1, 1>>,
     out |-> <<61, 156, 153, 171, 56, 132, 10, 118, 207, 148, 74, 8, 70, 31, 197, 16, 78, 88, 181, 130, 175, 181, 34, 166, 151, 58, 163, 127, 165, 99, 134, 88, 25, 108, 110, 111, 145, 255, 248, 108, 17, 227, 126, 22, 142, 40, 16, 35, 204, 144, 35, 248, 120, 90, 113, 19, 137, 153, 201, 248, 30, 134, 85, 168>>],
    [data |-> <<222, 8, 154, 130, 97, 132, 219, 45, 64, 111, 84, 141, 174, 186, 196, 57, 201, 58, 247, 96, 241, 143, 167, 132, 62, 251, 6, 211, 214, 192, 29, 116, 2, 2, 2, 2, 2, 2, 2, 2, 2, 2, 2, 2, 2, 2, 2, 2, 2, 2, 2, 2, 2, 2, 2, 2, 2, 2, 2, 2, 2, 2, 2, 2>>,
     out |-> <<52, 185, 15, 187, 20, 189, 123, 80, 231, 182, 48, 160, 53, 33, 5, 251, 95, 128, 40, 111, 53, 113, 60, 161, 39, 32, 24, 199, 239, 215, 94, 208, 237, 207, 206, 183, 95, 210, 207, 179, 121, 225, 56, 186, 223, 4, 123, 163, 47, 122, 96, 225, 127, 80, 216, 36, 239, 56, 78, 36, 64, 194, 241, 6>>],
    [data |-> <<222, 8, 154, 130, 97, 132, 219, 45, 64, 111, 84, 141, 174, 186, 196, 57, 201, 58, 247, 96, 241, 143, 167, 132, 62, 251, 6, 211, 214, 192, 29, 116, 3, 3, 3, 3, 3, 3, 3, 3, 3, 3, 3, 3, 3, 3, 3, 3, 3, 3, 3, 3, 3, 3, 3, 3, 3, 3, 3, 3, 3, 3, 3, 3>>,
     out |-> <<248, 152, 67, 138, 154, 117, 175, 243, 103, 227, 99, 255, 41, 179, 56, 169, 100, 213, 163, 36, 226, 66, 198, 210, 248, 236, 200, 203, 134, 168, 243, 36, 6, 218, 233, 20, 100, 229, 63, 149, 182, 49, 51, 28, 102, 87, 98, 221, 94, 50, 216, 197, 154, 123, 174, 214, 150, 203, 240, 128, 68, 152, 144, 99>>],
    [data |-> <<182, 48, 148, 182, 208, 76, 133, 87, 152, 110, 254, 234, 115, 66, 161, 210, 191, 213, 48, 15, 14, 9, 109, 59, 166, 102, 143, 205, 38, 169, 132, 174, 1, 1, 1, 1, 1, 1, 1, 1, 1, 1, 1, 1, 1, 1, 1, 1, 1, 1, 1, 1, 1, 1, 1, 1, 1, 1, 1, 1, 1, 1, 1, 1>>,
     out |-> <<189, 203, 69, 249, 9, 163, 76, 182, 86, 45, 72, 208, 3, 204, 76, 36, 156, 4, 89, 82, 215, 27, 226, 128, 20, 97, 254, 66, 52, 168, 195, 251, 100, 79, 162, 174, 249, 200, 145, 105, 154, 105, 214, 47, 219, 127, 70, 136, 156, 145, 130, 11, 176, 191, 85, 68, 134, 4, 147, 137, 82, 194, 248, 155>>],
    [data |-> <<182, 48, 148, 182, 208, 76, 133, 87, 152, 110, 254, 234, 115, 66, 161, 210, 191, 213, 48, 15, 14, 9, 109, 59, 166, 102, 143, 205, 38, 169, 132, 174, 2, 2, 2, 2, 2, 2, 2, 2, 2, 2, 2, 2, 2, 2, 2, 2, 2, 2, 2, 2, 2, 2, 2, 2, 2, 2, 2, 2, 2, 2, 2, 2>>,
     out |-> <<195, 74, 54, 12, 118, 109, 205, 63, 66, 232, 177, 208, 90, 42, 156, 84, 97, 33, 62, 113, 36, 250, 97, 34, 136, 60, 25, 184, 151, 32, 226, 42, 24, 216, 196, 74, 217, 11, 142, 131, 154, 148, 40, 5, 160, 59, 179, 144, 70, 43, 215, 103, 73, 128, 21, 132, 63, 158, 156, 3, 239, 232, 27, 26>>],
    [data |-> <<182, 48, 148, 182, 208, 76, 133, 87, 152, 110, 254, 234, 115, 66, 161, 210, 191, 213, 48, 15, 14, 9, 109, 59, 166, 102, 143, 205, 38, 169, 132, 174, 3, 3, 3, 3, 3, 3, 3, 3, 3, 3, 3, 3, 3, 3, 3, 3, 3, 3, 3, 3, 3, 3, 3, 3, 3, 3, 3, 3, 3, 3, 3, 3>>,
     out |-> <<48, 38, 190, 210, 242, 200, 215, 229, 110, 113, 141, 127, 97, 254, 233, 214, 178, 19, 135, 161, 154, 138, 218, 236, 231, 9, 71, 57, 189, 156, 76, 153, 189, 180, 149, 5, 197, 244, 254, 64, 56, 111, 8, 156, 242, 95, 66, 100, 10, 39, 117, 218, 100, 229, 94, 47, 102, 171, 24, 161, 43, 172, 213, 11>>],
    [data |-> <<123, 159, 128, 27, 233, 47, 38, 107, 108, 200, 198, 64, 199, 220, 1, 52, 250, 44, 17, 143, 230, 122, 12, 148, 220, 234, 252, 231, 212, 3, 227, 67, 1, 1, 1, 1, 1, 1, 1, 1, 1, 1, 1, 1, 1, 1, 1, 1, 1, 1, 1, 1, 1, 1, 1, 1, 1, 1, 1, 1, 1, 1, 1, 1>>,
     out |-> <<160, 68, 214, 28, 4, 155, 106, 52, 140, 252, 6, 6, 158, 145, 147, 203, 151, 130, 52, 237, 39, 144, 190, 141, 76, 205, 222, 54, 12, 68, 191, 18, 20, 47, 248, 93, 93, 103, 129, 251, 18, 97, 238, 150, 45, 222, 63, 106, 178, 234, 95, 224, 129, 201, 203, 216, 86, 148, 147, 185, 255, 73, 75, 70>>],
    [data |-> <<123, 159, 128, 27, 233, 47, 38, 107, 108, 200, 198, 64, 199, 220, 1, 52, 250, 44, 17, 143, 230, 122, 12, 148, 220, 234, 252, 231, 212, 3, 227, 67, 2, 2, 2, 2, 2, 2, 2, 2, 2, 2, 2, 2, 2, 2, 2, 2, 2, 2, 2, 2, 2, 2, 2, 2, 2, 2, 2, 2, 2, 2, 2, 2>>,
     out |-> <<138, 51, 65, 29, 69, 231, 177, 80, 154, 80, 207, 208, 23, 24, 38, 137, 196, 134, 79, 150, 143, 152, 27, 106, 135, 169, 133, 177, 205, 124, 8, 155, 139, 105, 181, 126, 150, 230, 234, 212, 112, 245, 211, 75, 101, 217, 190, 171, 235, 69, 11, 142, 164, 211, 182, 134, 62, 199, 73, 146, 39, 222, 4, 88>>],
    [data |-> <<123, 159, 128, 27, 233, 47, 38, 107, 108, 200, 198, 64, 199, 220, 1, 52, 250, 44, 17, 143, 230, 122, 12, 148, 220, 234, 252, 231, 212, 3, 227, 67, 3, 3, 3, 3, 3, 3, 3, 3, 3, 3, 3, 3, 3, 3, 3, 3, 3, 3, 3, 3, 3, 3, 3, 3, 3, 3, 3, 3, 3, 3, 3, 3>>,
     out |-> <<198, 57, 55, 93, 209, 232, 190, 238, 26, 163, 207, 145, 70, 125, 63, 181, 186, 94, 194, 150, 249, 226, 207, 63, 18, 248, 223, 94, 107, 232, 8, 186, 195, 81, 207, 4, 174, 75, 224, 232, 145, 63, 9, 241, 125, 153, 61, 227, 225, 113, 141, 85, 209, 82, 161, 129, 23, 27, 71, 127, 241, 123, 49, 12>>],
    [data |-> <<78, 29, 125, 155, 105, 85, 220, 29, 76, 94, 85, 140, 139, 253, 208, 142, 240, 169, 243, 5, 240, 160, 120, 235, 9, 9, 61, 181, 33, 22, 180, 64, 1, 1, 1, 1, 1, 1, 1, 1, 1, 1, 1, 1, 1, 1, 1, 1, 1, 1, 1, 1, 1, 1, 1, 1, 1, 1, 1, 1, 1, 1, 1, 1>>,
     out |-> <<122, 29, 196, 189, 222, 14, 148, 103, 37, 136, 18, 59, 12, 15, 76, 159, 203, 3, 51, 30, 177, 43, 50, 121, 172, 234, 217, 52, 205, 142, 52, 55, 51, 71, 162, 180, 19, 2, 131, 236, 23, 84, 107, 187, 32, 155, 91, 171, 114, 81, 42, 104, 117, 214, 145, 124, 120, 64, 96, 202, 90, 62, 169, 191>>],
    [data |-> <<78, 29, 125, 155, 105, 85, 220, 29, 76, 94, 85, 140, 139, 253, 208, 142, 240, 169, 243, 5, 240, 160, 120, 235, 9, 9, 61, 181, 33, 22, 180, 64, 2, 2, 2, 2, 2, 2, 2, 2, 2, 2, 2, 2, 2, 2, 2, 2, 2, 2, 2, 2, 2, 2, 2, 2, 2, 2, 2, 2, 2, 2, 2, 2>>,
     out |-> <<124, 135, 87, 45, 151, 29, 152, 210, 73, 50, 22, 103, 0, 204, 103, 215, 137, 167, 212, 33, 157, 194, 74, 67, 108, 97, 124, 223, 88, 69, 251, 159, 19, 17, 164, 169, 58, 215, 59, 115, 156, 161, 241, 173, 131, 181, 108, 174, 64, 96, 62, 145, 178, 95, 44, 114, 33, 176, 191, 108, 26, 50, 168, 128>>],
    [data |-> <<78, 29, 125, 155, 105, 85, 220, 29, 76, 94, 85, 140, 139, 253, 208, 142, 240, 169, 243, 5, 240, 160, 120, 235, 9, 9, 61, 181, 33, 22, 180, 64, 3, 3, 3, 3, 3, 3, 3, 3, 3, 3, 3, 3, 3, 3, 3, 3, 3, 3, 3, 3, 3, 3, 3, 3, 3, 3, 3, 3, 3, 3, 3, 3>>,
     out |-> <<132, 227, 226, 141, 202, 236, 111, 24, 249, 72, 216, 203, 234, 130, 36, 131, 116, 245, 93, 209, 20, 116, 226, 100, 190, 161, 104, 135, 94, 230, 232, 236, 30, 38, 99, 205, 86, 221, 107, 169, 106, 237, 91, 83, 145, 36, 66, 134, 218, 230, 138, 33, 164, 78, 74, 203, 78, 119, 125, 177, 157, 238, 68, 53>>],
    [data |-> <<78, 46, 57, 64, 6, 255, 137, 172, 237, 35, 27, 52, 30, 86, 101, 226, 196, 115, 212, 162, 142, 154, 80, 62, 193, 10, 193, 31, 23, 101, 230, 96, 1, 1, 1, 1, 1, 1, 1, 1, 1, 1, 1, 1, 1, 1, 1, 1, 1, 1, 1, 1, 1, 1, 1, 1, 1, 1, 1, 1, 1, 1, 1, 1>>,
     out |-> <<176, 50, 169, 157, 106, 123, 71, 160, 166, 127, 202, 119, 68, 74, 148, 175, 221, 77, 230, 76, 155, 201, 137, 180, 243, 23, 212, 164, 193, 224, 45, 90, 73, 170, 8, 92, 123, 27, 190, 31, 20, 32, 58, 89, 230, 69, 64, 112, 157, 18, 219, 114, 105, 187, 223, 67, 169, 110, 64, 193, 224, 86, 21, 116>>],
    [data |-> <<78, 46, 57, 64, 6, 255, 137, 172, 237, 35, 27, 52, 30, 86, 101, 226, 196, 115, 212, 162, 142, 154, 80, 62, 193, 10, 193, 31, 23, 101, 230, 96, 2, 2, 2, 2, 2, 2, 2, 2, 2, 2, 2, 2, 2, 2, 2, 2, 2, 2, 2, 2, 2, 2, 2, 2, 2, 2, 2, 2, 2, 2, 2, 2>>,
     out |-> <<241, 116, 94, 209, 225, 40, 29, 246, 43, 139, 228, 7, 238, 60, 170, 150, 179, 166, 68, 78, 162, 87, 169, 6, 126, 60, 30, 47, 45, 254, 111, 65, 77, 123, 253, 198, 52, 134, 111, 104, 237, 249, 223, 89, 20, 2, 45, 211, 8, 82, 132, 253, 11, 248, 188, 222, 218, 231, 116, 247, 64, 57, 105, 71>>],
    [data |-> <<78, 46, 57, 64, 6, 255, 137, 172, 237, 35, 27, 52, 30, 86, 101, 226, 196, 115, 212, 162, 142, 154, 80, 62, 193, 10, 193, 31, 23, 101, 230, 96, 3, 3, 3, 3, 3, 3, 3, 3, 3, 3, 3, 3, 3, 3, 3, 3, 3, 3, 3, 3, 3, 3, 3, 3, 3, 3, 3, 3, 3, 3, 3, 3>>,
     out |-> <<202, 159, 156, 0, 123, 120, 55, 100, 14, 219, 158, 48, 147, 71, 57, 174, 112, 251, 215, 113, 196, 227, 1, 225, 160, 99, 194, 92, 138, 223, 141, 222, 149, 112, 110, 39, 229, 178, 222, 119, 240, 223, 37, 200, 11, 249, 133, 229, 136, 154, 19, 120, 5, 93, 165, 67, 149, 231, 68, 115, 223, 138, 134, 46>>],
    [data |-> <<164, 254, 39, 7, 170, 90, 80, 244, 28, 75, 142, 105, 50, 231, 182, 128, 143, 223, 155, 217, 57, 153, 208, 35, 36, 227, 178, 222, 35, 57, 238, 107, 1, 1, 1, 1, 1, 1, 1, 1, 1, 1, 1, 1, 1, 1, 1, 1, 1, 1, 1, 1, 1, 1, 1, 1, 1, 1, 1, 1, 1, 1, 1, 1>>,
     out |-> <<152, 198, 34, 71, 191, 192, 148, 180, 105, 139, 184, 20, 192, 161, 12, 228, 147, 98, 43, 148, 193, 183, 211, 235, 92, 177, 253, 237, 173, 174, 196, 191, 26, 88, 140, 38, 131, 232, 117, 80, 176, 237, 152, 60, 39, 109, 21, 134, 229, 232, 120, 183, 183, 99, 239, 75, 4, 24, 235, 45, 57, 244, 122, 161>>],
    [data |-> <<164, 254, 39, 7, 170, 90, 80, 244, 28, 75, 142, 105, 50, 231, 182, 128, 143, 223, 155, 217, 57, 153, 208, 35, 36, 227, 178, 222, 35, 57, 238, 107, 2, 2, 2, 2, 2, 2, 2, 2, 2, 2, 2, 2, 2, 2, 2, 2, 2, 2, 2, 2, 2, 2, 2, 2, 2, 2, 2, 2, 2, 2, 2, 2>>,
     out |-> <<39, 104, 111, 25, 152, 152, 243, 15, 164, 153, 86, 206, 211, 221, 175, 142, 213, 246, 87, 93, 166, 133, 186, 224, 17, 20, 18, 6, 22, 8, 248, 148, 33, 3, 10, 6, 47, 120, 94, 65, 14, 132, 192, 26, 40, 55, 84, 12, 115, 56, 153, 119, 118, 179, 77, 218, 150, 48, 239, 55, 29, 162, 34, 226>>],
    [data |-> <<164, 254, 39, 7, 170, 90, 80, 244, 28, 75, 142, 105, 50, 231, 182, 128, 143, 223, 155, 217, 57, 153, 208, 35, 36, 227, 178, 222, 35, 57, 238, 107, 3, 3, 3, 3, 3, 3, 3, 3, 3, 3, 3, 3, 3, 3, 3, 3, 3, 3, 3, 3, 3, 3, 3, 3, 3, 3, 3, 3, 3, 3, 3, 3>>,
     out |-> <<225, 161, 221, 108, 126, 69, 189, 245, 121, 8, 55, 79, 82, 115, 77, 241, 29, 201, 221, 9, 1, 217, 60, 187, 172, 53, 216, 61, 216, 241, 118, 210, 25, 246, 68, 179, 211, 217, 58, 49, 172, 49, 147, 168, 236, 198, 30, 212, 33, 190, 220, 194, 224, 176, 229, 217, 55, 92, 27, 49, 2, 249, 60, 39>>],
    [data |-> <<129, 136, 3, 114, 150, 70, 120, 167, 160, 178, 240, 70, 233, 36, 63, 95, 52, 253, 38, 251, 90, 100, 22, 66, 204, 5, 12, 226, 164, 77, 240, 254, 1, 1, 1, 1, 1, 1, 1, 1, 1, 1, 1, 1, 1, 1, 1, 1, 1, 1, 1, 1, 1, 1, 1, 1, 1, 1, 1, 1, 1, 1, 1, 1>>,
     out |-> <<188, 41, 215, 48, 218, 211, 182, 183, 127, 19, 202, 175, 158, 127, 65, 53, 61, 125, 185, 235, 133, 143, 52, 92, 230, 103, 229, 25, 122, 57, 105, 100, 209, 79, 148, 224, 75, 19, 21, 135, 74, 136, 26, 200, 83, 56, 184, 112, 184, 90, 85, 182, 161, 201, 92, 4, 81, 208, 84, 37, 251, 17, 236, 47>>],
    [data |-> <<129, 136, 3, 114, 150, 70, 120, 167, 160, 178, 240, 70, 233, 36, 63, 95, 52, 253, 38, 251, 90, 100, 22, 66, 204, 5, 12, 226, 164, 77, 240, 254, 2, 2, 2, 2, 2, 2, 2, 2, 2, 2, 2, 2, 2, 2, 2, 2, 2, 2, 2, 2, 2, 2, 2, 2, 2, 2, 2, 2, 2, 2, 2, 2>>,
     out |-> <<30, 197, 3, 218, 25, 65, 54, 254, 226, 5, 125, 26, 167, 65, 131, 42, 34, 116, 184, 106, 13, 89, 39, 191, 132, 89, 86, 72, 209, 23, 112, 184, 44, 65, 45, 88, 161, 144, 79, 82, 229, 102, 85, 28, 163, 146, 129, 217, 2, 108, 226, 187, 98, 23, 99, 235, 65, 219, 43, 224, 170, 240, 95, 35>>],
    [data |-> <<129, 136, 3, 114, 150, 70, 120, 167, 160, 178, 240, 70, 233, 36, 63, 95, 52, 253, 38, 251, 90, 100, 22, 66, 204, 5, 12, 226, 164, 77, 240, 254, 3, 3, 3, 3, 3, 3, 3, 3, 3, 3, 3, 3, 3, 3, 3, 3, 3, 3, 3, 3, 3, 3, 3, 3, 3, 3, 3, 3, 3, 3, 3, 3>>,
     out |-> <<122, 61, 56, 192, 88, 17, 138, 221, 245, 136, 97, 170, 125, 77, 198, 94, 235, 138, 224, 6, 255, 70, 179, 97, 57, 27, 7, 100, 22, 108, 245, 13, 128, 122, 115, 235, 115, 248, 61, 163, 145, 50, 54, 197, 150, 244, 172, 117, 146, 72, 42, 245, 61, 73, 210, 156, 199, 87, 213, 224, 220, 191, 148, 156>>],
    [data |-> <<181, 124, 33, 26, 84, 223, 236, 45, 167, 219, 99, 40, 178, 39, 206, 203, 248, 10, 231, 133, 226, 206, 243, 122, 76, 91, 245, 196, 75, 81, 9, 202, 1, 1, 1, 1, 1, 1, 1, 1, 1, 1, 1, 1, 1, 1, 1, 1, 1, 1, 1, 1, 1, 1, 1, 1, 1, 1, 1, 1, 1, 1, 1, 1>>,
     out |-> <<14, 175, 44, 247, 116, 198, 123, 110, 115, 75, 18, 226, 111, 186, 70, 138, 84, 255, 185, 9, 41, 79, 216, 28, 8, 220, 72, 32, 185, 161, 76, 54, 125, 171, 128, 121, 118, 200, 79, 222, 91, 186, 188, 34, 26, 104, 11, 255, 196, 248, 223, 255, 150, 184, 34, 166, 251, 190, 53, 237, 130, 81, 173, 206>>],
    [data |-> <<181, 124, 33, 26, 84, 223, 236, 45, 167, 219, 99, 40, 178, 39, 206, 203, 248, 10, 231, 133, 226, 206, 243, 122, 76, 91, 245, 196, 75, 81, 9, 202, 2, 2, 2, 2, 2, 2, 2, 2, 2, 2, 2, 2, 2, 2, 2, 2, 2, 2, 2, 2, 2, 2, 2, 2, 2, 2, 2, 2, 2, 2, 2, 2>>,
     out |-> <<107, 34, 80, 203, 135, 147, 63, 3, 151, 87, 17, 95, 65, 122, 247, 111, 71, 172, 43, 62, 21, 60, 215, 223, 162, 112, 16, 213, 144, 35, 24, 178, 60, 75, 43, 152, 23, 174, 178, 107, 191, 76, 227, 185, 120, 173, 119, 122, 157, 109, 239, 68, 67, 156, 83, 244, 60, 143, 120, 228, 152, 82, 3, 132>>],
    [data |-> <<181, 124, 33, 26, 84, 223, 236, 45, 167, 219, 99, 40, 178, 39, 206, 203, 248, 10, 231, 133, 226, 206, 243, 122, 76, 91, 245, 196, 75, 81, 9, 202, 3, 3, 3, 3, 3, 3, 3, 3, 3, 3, 3, 3, 3, 3, 3, 3, 3, 3, 3, 3, 3, 3, 3, 3, 3, 3, 3, 3, 3, 3, 3, 3>>,
     out |-> <<170, 12, 161, 162, 12, 240, 214, 27, 27, 59, 223, 80, 119, 92, 208, 123, 251, 90, 156, 170, 235, 174, 218, 20, 153, 97, 108, 89, 239, 192, 206, 134, 106, 7, 210, 95, 45, 111, 138, 46, 190, 215, 32, 186, 104, 145, 11, 139, 243, 65, 84, 61, 58, 184, 47, 217, 214, 144, 39, 187, 142, 253, 8, 58>>],
    [data |-> <<14, 168, 66, 214, 213, 24, 198, 166, 224, 0, 99, 120, 238, 248, 235, 73, 200, 214, 61, 80, 43, 65, 254, 239, 13, 145, 208, 89, 181, 64, 47, 78, 1, 1, 1, 1, 1, 1, 1, 1, 1, 1, 1, 1, 1, 1, 1, 1, 1, 1, 1, 1, 1, 1, 1, 1, 1, 1, 1, 1, 1, 1, 1, 1>>,
     out |-> <<182, 155, 242, 210, 74, 192, 81, 236, 0, 110, 87, 185, 221, 254, 42, 179, 160, 247, 57, 68, 61, 171, 21, 178, 248, 20, 18, 188, 233, 90, 98, 244, 44, 247, 232, 73, 165, 102, 58, 90, 165, 223, 21, 180, 81, 69, 203, 10, 18, 31, 23, 141, 50, 225, 173, 173, 62, 157, 249, 112, 16, 153, 227, 187>>],
    [data |-> <<14, 168, 66, 214, 213, 24, 198, 166, 224, 0, 99, 120, 238, 248, 235, 73, 200, 214, 61, 80, 43, 65, 254, 239, 13, 145, 208, 89, 181, 64, 47, 78, 2, 2, 2, 2, 2, 2, 2, 2, 2, 2, 2, 2, 2, 2, 2, 2, 2, 2, 2, 2, 2, 2, 2, 2, 2, 2, 2, 2, 2, 2, 2, 2>>,
     out |-> <<1, 153, 98, 222, 92, 241, 57, 12, 105, 216, 176, 135, 129, 23, 44, 217, 179, 78, 156, 241, 147, 53, 191, 105, 51, 251, 3, 40, 108, 65, 123, 60, 114, 220, 167, 254, 52, 191, 241, 162, 60, 194, 75, 175, 186, 236, 189, 59, 45, 63, 73, 143, 110, 115, 31, 76, 196, 248, 143, 86, 110, 141, 112, 86>>],
    [data |-> <<14, 168, 66, 214, 213, 24, 198, 166, 224, 0, 99, 120, 238, 248, 235, 73, 200, 214, 61, 80, 43, 65, 254, 239, 13, 145, 208, 89, 181, 64, 47, 78, 3, 3, 3, 3, 3, 3, 3, 3, 3, 3, 3, 3, 3, 3, 3, 3, 3, 3, 3, 3, 3, 3, 3, 3, 3, 3, 3, 3, 3, 3, 3, 3>>,
     out |-> <<32, 161, 220, 104, 6, 81, 231, 22, 79, 204, 193, 227, 11, 108, 211, 90, 64, 123, 168, 22, 83, 123, 132, 136, 15, 126, 67, 58, 103, 3, 132, 108, 32, 183, 101, 156, 164, 141, 54, 39, 175, 230, 174, 189, 243, 67, 238, 225, 218, 118, 0, 67, 243, 114, 189, 196, 195, 167, 230, 53, 91, 208, 121, 98>>],
    [data |-> <<124, 172, 59, 21, 184, 131, 77, 43, 57, 248, 255, 175, 200, 61, 210, 197, 96, 29, 91, 81, 94, 124, 189, 148, 196, 3, 196, 72, 211, 79, 179, 175, 1, 1, 1, 1, 1, 1, 1, 1, 1, 1, 1, 1, 1, 1, 1, 1, 1, 1, 1, 1, 1, 1, 1, 1, 1, 1, 1, 1, 1, 1, 1, 1>>,
     out |-> <<10, 87, 34, 227, 86, 100, 252, 250, 216, 108, 189, 39, 71, 173, 116, 243, 96, 253, 132, 102, 183, 46, 96, 64, 7, 218, 227, 247, 102, 18, 242, 255, 159, 128, 47, 141, 136, 226, 46, 37, 177, 13, 141, 209, 109, 245, 115, 249, 193, 234, 139, 145, 26, 92, 25, 21, 249, 130, 181, 52, 56, 108, 101, 221>>],
    [data |-> <<124, 172, 59, 21, 184, 131, 77, 43, 57, 248, 255, 175, 200, 61, 210, 197, 96, 29, 91, 81, 94, 124, 189, 148, 196, 3, 196, 72, 211, 79, 179, 175, 2, 2, 2, 2, 2, 2, 2, 2, 2, 2, 2, 2, 2, 2, 2, 2, 2, 2, 2, 2, 2, 2, 2, 2, 2, 2, 2, 2, 2, 2, 2, 2>>,
     out |-> <<200, 57, 27, 117, 79, 212, 127, 48, 250, 208, 32, 186, 58, 18, 31, 10, 159, 77, 15, 117, 137, 216, 120, 105, 77, 249, 29, 123, 130, 206, 59, 130, 45, 46, 90, 27, 72, 248, 16, 193, 186, 12, 236, 147, 209, 45, 235, 58, 204, 249, 59, 184, 198, 136, 95, 69, 82, 71, 227, 245, 138, 201, 181, 248>>],
    [data |-> <<124, 172, 59, 21, 184, 131, 77, 43, 57, 248, 255, 175, 200, 61, 210, 197, 96, 29, 91, 81, 94, 124, 189, 148, 196, 3, 196, 72, 211, 79, 179, 175, 3, 3, 3, 3, 3, 3, 3, 3, 3, 3, 3, 3, 3, 3, 3, 3, 3, 3, 3, 3, 3, 3, 3, 3, 3, 3, 3, 3, 3, 3, 3, 3>>,
     out |-> <<65, 169, 54, 247, 205, 11, 141, 47, 193, 45, 158, 206, 14, 208, 231, 154, 229, 91, 140, 230, 2, 138, 116, 35, 134, 222, 26, 124, 150, 63, 252, 156, 130, 154, 169, 208, 253, 23, 59, 78, 50, 152, 228, 59, 3, 213, 214, 10, 163, 199, 197, 206, 68, 113, 181, 141, 107, 15, 80, 129, 97, 169, 21, 51>>]
    >>

Shake256Stream(data) == (CHOOSE row \in Range(Shake256Table) : row.data = data).out

\* hashlib.shake_256(data).digest(output_length), output_length <= 128
shake256(data, output_length) == SubSeq(Shake256Stream(data), 1, output_length)

RECURSIVE ByteSum(_, _, _)
\* data[lo] + ... + data[hi], halving the range
ByteSum(data, lo, hi) ==
    IF lo = hi THEN data[lo]
    ELSE LET mid == (lo + hi) \div 2
         IN  ByteSum(data, lo, mid) + ByteSum(data, mid + 1, hi)

RECURSIVE WeightedByteSum(_, _, _)
\* lo*data[lo] + ... + hi*data[hi], halving the range
WeightedByteSum(data, lo, hi) ==
    IF lo = hi THEN lo * data[lo]
    ELSE LET mid == (lo + hi) \div 2
         IN  WeightedByteSum(data, lo, mid) + WeightedByteSum(data, mid + 1, hi)

TextDigest(data) ==
    <<Len(data), ByteSum(data, 1, Len(data)), WeightedByteSum(data, 1, Len(data))>>

\* hashlib.sha3_256(data).digest()
sha3_256(data) ==
    IF Len(data) <= 64
      THEN (CHOOSE row \in Range(Sha3_256Table) : row.data = data).out
      ELSE (CHOOSE row \in Range(Sha3_256TextTable) : row.digest = TextDigest(data)).out

\* hashlib.sha3_512(data).digest()
sha3_512(data) == (CHOOSE row \in Range(Sha3_512Table) : row.data = data).out

PRF_raises(eta, s, b) == eta \notin {2, 3} \/ Len(s) # 32 \/ Len(b) # 1

PRF(eta, s, b) == shake256(s \o b, 64 * eta)

H(s) == sha3_256(s)

\* returns <<digest[:32], digest[32:]>>
G(c) == LET digest == sha3_512(c) IN <<SubSeq(digest, 1, 32), SubSeq(digest, 33, 64)>>


(***************************************************************************)
(* auxiliary/general/functions.py : bit/byte conversion                    *)
(***************************************************************************)
bits_to_bytes_raises(bits) ==
    \/ Len(bits) % 8 # 0
    \/ \E k \in 1..Len(bits) : bits[k] \notin {0, 1}

\* byte i collects bits[i*8 + j] << j for j in 0..7 (first bit = LSB)
bits_to_bytes(bits) ==
    [b \in 1..(Len(bits) \div 8) |->
        At(bits, (b-1)*8 + 0) * 1   + At(bits, (b-1)*8 + 1) * 2
      + At(bits, (b-1)*8 + 2) * 4   + At(bits, (b-1)*8 + 3) * 8
      + At(bits, (b-1)*8 + 4) * 16  + At(bits, (b-1)*8 + 5) * 32
      + At(bits, (b-1)*8 + 6) * 64  + At(bits, (b-1)*8 + 7) * 128]

\* bit 8*i + j of the result is (data[i] >> j) & 1
bytes_to_bits_msb(data) ==
    [k \in 1..(8 * Len(data)) |-> Shr(At(data, (k-1) \div 8), 7 - ((k-1) % 8)) % 2]

bytes_to_bits(data) ==
    [k \in 1..(8 * Len(data)) |-> Shr(At(data, (k-1) \div 8), (k-1) % 8) % 2]

(***************************************************************************)
(* compress / decompress                                                   *)
(***************************************************************************)
compress_raises(x, d) == ~(1 <= d /\ d < 12)

compress_half(x, d) == (Shl(x, d - 1) \div Q) % Pow2(d)

compress(x, d) == (Shl(x, d) \div Q) % Pow2(d)

decompress_raises(y, d) == ~(1 <= d /\ d < 12)

decompress(y, d) == Shr(y * Q + Pow2(d - 1), d)

(***************************************************************************)
(* byte_encode / byte_decode                                               *)
(***************************************************************************)
\* the modulus q for every d
EncModulusQ(d) == Q

EncModulus(d) == IF d < 12 THEN Pow2(d) ELSE Q

byte_encode_raises(F, d) ==
    \/ Len(F) # 256
    \/ (256 * d) % 8 # 0
    \/ \E k \in 1..Len(F) : ~(0 <= F[k] /\ F[k] < EncModulus(d))

\* bits: for each x in F, the d bits (x >> j) & 1, j = 0..d-1, in order
byte_encode_bits(F, d) ==
    [k \in 1..(Len(F) * d) |-> Shr(At(F, (k-1) \div d), (k-1) % d) % 2]

byte_encode(F, d) == bits_to_bytes(byte_encode_bits(F, d))

byte_decode_raises(B, d) == Len(B) # (256 * d) \div 8

RECURSIVE ChunkSum(_, _, _, _)
\* sum(bit << j for j, bit in enumerate(bits[lo : lo + d])), from index j on
ChunkSum(bits, lo, d, j) ==
    IF j >= d THEN 0
    ELSE Shl(At(bits, lo + j), j) + ChunkSum(bits, lo, d, j + 1)

byte_decode(B, d) ==
    LET bits == bytes_to_bits(B)
    IN  [i \in 1..256 |-> ChunkSum(bits, (i-1)*d, d, 0) % EncModulus(d)]

(***************************************************************************)
(* sample_ntt                                                              *)
(***************************************************************************)
sample_ntt_raises(B) == Len(B) # 34

\* one pass of the while body on the 3 squeezed bytes C
SampleNttBody(coefficients, C) ==
    LET d1 == At(C, 0) + 256 * (At(C, 1) % 16)
        d2 == Shr(At(C, 1), 4) + 16 * At(C, 2)
        c1 == IF d1 < Q THEN Append(coefficients, d1) ELSE coefficients
    IN  IF d1 < Q /\ Len(c1) = 256 THEN c1
        ELSE IF d2 < Q /\ Len(c1) < 256 THEN Append(c1, d2)
        ELSE c1

\* the while test and one pass of the body
SampleNttPassOnce(ctx, coefficients) ==
    IF Len(coefficients) < 256
      THEN SampleNttBody(coefficients, XOF_squeeze(ctx, 3))
      ELSE coefficients

RECURSIVE SampleNttPasses(_, _, _)
\* n passes of the loop, halving n
SampleNttPasses(ctx, coefficients, n) ==
    IF n = 1 THEN SampleNttPassOnce(ctx, coefficients)
    ELSE LET half == SampleNttPasses(ctx, coefficients, n \div 2)
         IN  IF Len(half) = 256 THEN half
             ELSE SampleNttPasses(ctx, half, n - (n \div 2))

\* A pass that appends nothing leaves (xof, coefficients) as they were, so
\* every later pass appends nothing either and the call never returns; any
\* other pass appends at least one value, so 256 passes reach the return.
SampleNttLoop(B) == SampleNttPasses(XOF_absorb(XOF_init, B), <<>>, 256)

sample_ntt_hangs(B) == Len(SampleNttLoop(B)) < 256

sample_ntt(B) == SampleNttLoop(B)

(***************************************************************************)
(* auxiliary/transform/functions.py : NTT engine                           *)
(***************************************************************************)
ZETA_PRECOMP == <<
    1, 1729, 2580, 3289, 2642, 630, 1897, 848, 1062, 1919, 193, 797, 2786, 3260, 569, 1746,
    296, 2447, 1339, 1476, 3046, 56, 2240, 1333, 1426, 2094, 535, 2882, 2393, 2879, 1974, 821,
    289, 331, 3253, 1756, 1197, 2304, 2277, 2055, 650, 1977, 2513, 632, 2865, 33, 1320, 1915,
    2319, 1435, 807, 452, 1438, 2868, 1534, 2402, 2647, 2617, 1481, 648, 2474, 3110, 1227, 910,
    17, 2761, 583, 2649, 1637, 723, 2288, 1100, 1409, 2662, 3281, 233, 756, 2156, 3015, 3050,
    1703, 1651, 2789, 1789, 1847, 952, 1461, 2687, 939, 2308, 2437, 2388, 733, 2337, 268, 641,
    1584, 2298, 2037, 3220, 375, 2549, 2090, 1645, 1063, 319, 2773, 757, 2099, 561, 2466, 2594,
    2804, 1092, 403, 1026, 1143, 2150, 2775, 886, 1722, 1212, 1874, 1029, 2110, 2935, 885, 2154
    >>

GAMMA_PRECOMP == <<
    17, -17, 2761, -2761, 583, -583, 2649, -2649, 1637, -1637, 723, -723, 2288, -2288, 1100, -1100,
    1409, -1409, 2662, -2662, 3281, -3281, 233, -233, 756, -756, 2156, -2156, 3015, -3015, 3050, -3050,
    1703, -1703, 1651, -1651, 2789, -2789, 1789, -1789, 1847, -1847, 952, -952, 1461, -1461, 2687, -2687,
    939, -939, 2308, -2308, 2437, -2437, 2388, -2388, 733, -733, 2337, -2337, 268, -268, 641, -641,
    1584, -1584, 2298, -2298, 2037, -2037, 3220, -3220, 375, -375, 2549, -2549, 2090, -2090, 1645, -1645,
    1063, -1063, 319, -319, 2773, -2773, 757, -757, 2099, -2099, 561, -561, 2466, -2466, 2594, -2594,
    2804, -2804, 1092, -1092, 403, -403, 1026, -1026, 1143, -1143, 2150, -2150, 2775, -2775, 886, -886,
    1722, -1722, 1212, -1212, 1874, -1874, 1029, -1029, 2110, -2110, 2935, -2935, 885, -885, 2154, -2154
    >>

\* format(i, '07b'): the 7 binary digits of i, the highest first
Format07b(i) == [k \in 1..7 |-> (i \div (2 ^ (7 - k))) % 2]

\* text[::-1]
Reversed(text) == [k \in 1..Len(text) |-> text[Len(text) + 1 - k]]

\* int(text, 2) for a text of 7 binary digits
IntBase2(text) ==
    text[1] * 64 + text[2] * 32 + text[3] * 16 + text[4] * 8 + text[5] * 4 + text[6] * 2 + text[7]

\* bitrev7 read as the identity
bitrev7_plain(i) == i

\* bitrev7(i) for 0 <= i < 128
bitrev7(i) == IntBase2(Reversed(Format07b(i)))

\* pow(z, -1, Q)
ModInverse(z, q) == CHOOSE y \in 0..(q - 1) : (z * y) % q = 1

ZETA_PRECOMP_INV == List([k \in 1..128 |-> ModInverse(ZETA_PRECOMP[k], Q)])

\* One pass of "for start in range(0, N, 2*length)" with its inner loop.
\* Block number b = start / (2*length) uses zeta = ZETA_PRECOMP[k + b]; its
\* butterflies (lines 58-60) write f_hat[j] and f_hat[j + length] once each,
\* from the values the two entries had before the pass.
NttLayer(f_hat, length, k) ==
    List([idx \in 1..N |->
        LET i    == idx - 1
            zeta == At(ZETA_PRECOMP, k + (i \div (2 * length)))
        IN  IF i % (2 * length) < length
              THEN (At(f_hat, i) + ((zeta * At(f_hat, i + length)) % Q)) % Q
              ELSE (At(f_hat, i - length) - ((zeta * At(f_hat, i)) % Q)) % Q])

RECURSIVE NttLayers(_, _, _)
\* while length >= 2: ...; length >>= 1   (k has advanced by N / (2*length))
NttLayers(f_hat, length, k) ==
    IF ~(length >= 2) THEN f_hat
    ELSE NttLayers(NttLayer(f_hat, length, k), Shr(length, 1), k + N \div (2 * length))

\* f_hat = copy.copy(f); k = 1; length = 128
ntt(f) == NttLayers(f, 128, 1)

\* One pass of ntt_inv's "for start in range(0, N, 2*length)": block b uses
\* zeta_inv = ZETA_PRECOMP_INV[k - b]; lines 79-81 write f[j] and
\* f[j + length] from the values they had before the pass.
NttInvLayer(f, length, k) ==
    List([idx \in 1..N |->
        LET i        == idx - 1
            zeta_inv == At(ZETA_PRECOMP_INV, k - (i \div (2 * length)))
        IN  IF i % (2 * length) < length
              THEN (At(f, i) + At(f, i + length)) % Q
              ELSE (zeta_inv * ((At(f, i) - At(f, i - length)) % Q)) % Q])

RECURSIVE NttInvLayers(_, _, _)
\* while length <= 128: ...; length <<= 1   (k has dropped by N / (2*length))
NttInvLayers(f, length, k) ==
    IF ~(length <= 128) THEN f
    ELSE NttInvLayers(NttInvLayer(f, length, k), Shl(length, 1), k - N \div (2 * length))

n_inv == 3303

\* f = copy.copy(f_hat); k = 127; length = 2; then the scaling by n_inv
ntt_inv(f_hat) ==
    LET f == NttInvLayers(f_hat, 2, 127)
    IN  List([i \in 1..Len(f) |-> (f[i] * n_inv) % Q])

\* a remainder that takes the sign of its left operand
TruncRem(a, q) == IF a >= 0 THEN a % q ELSE 0 - ((0 - a) % q)

\* base_case_multiply with remainders that take the sign of the left operand
base_case_multiply_trunc(a0, a1, b0, b1, gamma) ==
    << TruncRem(TruncRem(a0 * b0, Q) + TruncRem(TruncRem(a1 * b1, Q) * gamma, Q), Q),
       TruncRem(TruncRem(a0 * b1, Q) + TruncRem(a1 * b0, Q), Q) >>

\* returns <<c0, c1>>
base_case_multiply(a0, a1, b0, b1, gamma) ==
    << (((a0 * b0) % Q) + ((((a1 * b1) % Q) * gamma) % Q)) % Q,
       (((a0 * b1) % Q) + ((a1 * b0) % Q)) % Q >>

\* h_hat[2*i], h_hat[2*i+1] = base_case_multiply(..., GAMMA_PRECOMP[i]), i < 128
multiply_ntts(f_hat, g_hat) ==
    List([idx \in 1..N |->
        LET i == (idx - 1) \div 2
        IN  base_case_multiply(At(f_hat, 2*i), At(f_hat, 2*i + 1),
                               At(g_hat, 2*i), At(g_hat, 2*i + 1),
                               At(GAMMA_PRECOMP, i))[((idx - 1) % 2) + 1]])

(***************************************************************************)
(* sample_poly_cbd                                                         *)
(***************************************************************************)
sample_poly_cbd_raises(eta, B) == eta \notin {2, 3} \/ Len(B) # 64 * eta

RECURSIVE BitSum(_, _, _)
\* sum(bits[lo : hi])
BitSum(bits, lo, hi) == IF lo >= hi THEN 0 ELSE At(bits, lo) + BitSum(bits, lo + 1, hi)

\* the two sums added instead of subtracted
sample_poly_cbd_sum(eta, B) ==
    LET bits == bytes_to_bits(B)
    IN  List([idx \in 1..256 |->
            LET start == (idx - 1) * 2 * eta
                x     == BitSum(bits, start, start + eta)
                y     == BitSum(bits, start + eta, start + 2 * eta)
            IN  (x + y) % Q])

sample_poly_cbd(eta, B) ==
    LET bits == bytes_to_bits(B)
    IN  List([idx \in 1..256 |->
            LET start == (idx - 1) * 2 * eta
                x     == BitSum(bits, start, start + eta)
                y     == BitSum(bits, start + eta, start + 2 * eta)
            IN  (x - y) % Q])

(***************************************************************************)
(* key-encryption/keygen.py, key_encryption/encrypt.py and decrypt.py :     *)
(* K-PKE.  The modules name one another by import paths that differ from    *)
(* file to file; each imported name is taken to be the function of that     *)
(* name in this repository.                                                 *)
(***************************************************************************)
Min(a, b) == IF a <= b THEN a ELSE b

\* [(x + y) % q for x, y in zip(a, b)]
poly_add(a, b) == List([i \in 1..Min(Len(a), Len(b)) |-> (a[i] + b[i]) % Q])

\* the os.urandom(32) calls of k_pke_keygen(d, eta1, eta2): r1, then r2, both
\* before anything else is computed
k_pke_keygen_urandom(r1, r2) == <<r1, r2>>

\* k_pke_keygen(d, eta1, eta2) with os.urandom returning r1, then r2.
\* status is "ok", "ValueError" (an exception leaves the call) or "hang"
\* (sample_ntt never returns).
k_pke_keygen(d, eta1, eta2, r1, r2) ==
    LET failed(status) == [status |-> status, ek_pke |-> <<>>, dk_pke |-> <<>>]
        A_input == r2 \o <<0, 0>>
    IN  IF PRF_raises(eta1, r1, <<0>>) THEN failed("ValueError")
        ELSE IF sample_poly_cbd_raises(eta1, PRF(eta1, r1, <<0>>)) THEN failed("ValueError")
        ELSE IF PRF_raises(eta2, r1, <<1>>) THEN failed("ValueError")
        ELSE IF sample_poly_cbd_raises(eta2, PRF(eta2, r1, <<1>>)) THEN failed("ValueError")
        ELSE IF sample_ntt_raises(A_input) THEN failed("ValueError")
        ELSE IF sample_ntt_hangs(A_input) THEN failed("hang")
        ELSE LET s1      == sample_poly_cbd(eta1, PRF(eta1, r1, <<0>>))
                 s2      == sample_poly_cbd(eta2, PRF(eta2, r1, <<1>>))
                 A       == sample_ntt(A_input)
                 s1_hat  == ntt(s1)
                 s2_hat  == ntt(s2)
                 product == multiply_ntts(A, s1_hat)
                 t_hat   == poly_add(product, s2_hat)
             IN  IF byte_encode_raises(t_hat, d) THEN failed("ValueError")
                 ELSE [status |-> "ok",
                       ek_pke |-> <<A, t_hat>>,
                       dk_pke |-> <<byte_encode(t_hat, d), s1, s2>>]

encode_message_raises(m) == Len(m) # 32

encode_message(m) == LET bit_array == bytes_to_bits(m)
                     IN  List([i \in 1..Len(bit_array) |-> bit_array[i] % Q])

\* k_pke_encrypt(ek_pke, m, r, d, eta): status "ok" or "ValueError"
k_pke_encrypt(ek_pke, m, r, d, eta) ==
    LET failed == [status |-> "ValueError", c |-> <<>>]
        A      == At(ek_pke, 0)
        t_hat  == At(ek_pke, 1)
    IN  IF \E b \in {<<0>>, <<1>>, <<2>>} :
              PRF_raises(eta, r, b) \/ sample_poly_cbd_raises(eta, PRF(eta, r, b))
          THEN failed
        ELSE IF encode_message_raises(m) THEN failed
        ELSE LET y      == sample_poly_cbd(eta, PRF(eta, r, <<0>>))
                 e1     == sample_poly_cbd(eta, PRF(eta, r, <<1>>))
                 e2     == sample_poly_cbd(eta, PRF(eta, r, <<2>>))
                 y_hat  == ntt(y)
                 e1_hat == ntt(e1)
                 e2_hat == ntt(e2)
                 u_hat  == poly_add(multiply_ntts(A, y_hat), e1_hat)
                 v_hat0 == poly_add(multiply_ntts(t_hat, y_hat), e2_hat)
                 m_hat  == ntt(encode_message(m))
                 v_hat  == poly_add(v_hat0, m_hat)
                 u_hat_compressed == List([i \in 1..Len(u_hat) |-> compress(u_hat[i], d)])
                 v_hat_compressed == List([i \in 1..Len(v_hat) |-> compress(v_hat[i], d)])
             IN  IF \/ \E i \in 1..Len(u_hat) : compress_raises(u_hat[i], d)
                    \/ \E i \in 1..Len(v_hat) : compress_raises(v_hat[i], d)
                   THEN failed
                 ELSE IF byte_encode_raises(u_hat_compressed, d)
                         \/ byte_encode_raises(v_hat_compressed, d)
                   THEN failed
                   ELSE [status |-> "ok",
                         c |-> byte_encode(u_hat_compressed, d)
                                 \o byte_encode(v_hat_compressed, d)]

\* bits.append(0 if coeff < (q // 2) else 1) for coeff in poly[:256]
decode_message_bits(poly) ==
    [i \in 1..Min(Len(poly), 256) |-> IF poly[i] < Q \div 2 THEN 0 ELSE 1]

decode_message(poly) == List(bits_to_bytes(decode_message_bits(poly)))

\* c[:n] and c[n:]
Prefix(c, n) == SubSeq(c, 1, Min(n, Len(c)))
\* c[n : 2 * n]
SuffixOfLength(c, n) == SubSeq(c, Min(n, Len(c)) + 1, Min(2 * n, Len(c)))

Suffix(c, n) == SubSeq(c, Min(n, Len(c)) + 1, Len(c))

\* w_hat = [(vh - uh) % 3329 for vh, uh in zip(v_hat, u_s1_hat)]
DecryptSubtract(v_hat, u_s1_hat) ==
    List([i \in 1..Min(Len(v_hat), Len(u_s1_hat)) |-> (v_hat[i] - u_s1_hat[i]) % 3329])

\* k_pke_decrypt(dk_pke, c, d): status "ok" or "ValueError"
k_pke_decrypt(dk_pke, c, d) ==
    LET failed == [status |-> "ValueError", m |-> <<>>]
        s1     == At(dk_pke, 1)
        poly_bytes_len == (256 * d) \div 8
        c1     == Prefix(c, poly_bytes_len)
        c2     == Suffix(c, poly_bytes_len)
    IN  IF byte_decode_raises(c1, d) \/ byte_decode_raises(c2, d) THEN failed
        ELSE IF \E y \in Range(byte_decode(c1, d)) \cup Range(byte_decode(c2, d)) :
                    decompress_raises(y, d)
          THEN failed
        ELSE LET u_hat_compressed == byte_decode(c1, d)
                 v_hat_compressed == byte_decode(c2, d)
                 u_hat    == List([i \in 1..256 |-> decompress(u_hat_compressed[i], d)])
                 v_hat    == List([i \in 1..256 |-> decompress(v_hat_compressed[i], d)])
                 s1_hat   == ntt(s1)
                 u_s1_hat == multiply_ntts(u_hat, s1_hat)
                 w_hat    == DecryptSubtract(v_hat, u_s1_hat)
                 w        == ntt_inv(w_hat)
             IN  IF bits_to_bytes_raises(decode_message_bits(w)) THEN failed
                 ELSE [status |-> "ok", m |-> decode_message(w)]

(***************************************************************************)
(* ml_kem_internal/*.py and ml_kem/*.py : ML-KEM.  A key is the 1-tuple of  *)
(* the K-PKE key.  ek[0].__repr__().encode() is the text Python prints for  *)
(* the tuple of two integer lists, as its sequence of (ASCII) bytes.        *)
(***************************************************************************)
RECURSIVE ReprInt(_)
\* repr of a natural number: its decimal digits
ReprInt(n) == IF n < 10 THEN <<48 + n>> ELSE ReprInt(n \div 10) \o <<48 + (n % 10)>>

RECURSIVE ReprItems(_, _, _)
\* repr of F[lo], ..., F[hi] separated by ", ", halving the range
ReprItems(F, lo, hi) ==
    IF lo = hi THEN ReprInt(F[lo])
    ELSE LET mid == (lo + hi) \div 2
         IN  ReprItems(F, lo, mid) \o <<44, 32>> \o ReprItems(F, mid + 1, hi)

\* repr of a list of integers: "[a, b, ...]"
ReprList(F) == <<91>> \o (IF Len(F) = 0 THEN <<>> ELSE ReprItems(F, 1, Len(F))) \o <<93>>

\* repr of the pair A, t_hat held as a Python tuple, "([...], [...])", or as
\* a Python list, "[[...], [...]]": ek[0] is unpacked the same way for both
ReprKeyAs(type, ek_pke) ==
    (IF type = "tuple" THEN <<40>> ELSE <<91>>)
      \o ReprList(At(ek_pke, 0)) \o <<44, 32>> \o ReprList(At(ek_pke, 1))
      \o (IF type = "tuple" THEN <<41>> ELSE <<93>>)

\* repr of the tuple (A, t_hat), as k_pke_keygen returns the key
ReprKey(ek_pke) == ReprKeyAs("tuple", ek_pke)

\* ml_kem_keygen_internal(d), with os.urandom returning r1, then r2
ml_kem_keygen_internal(d, r1, r2) ==
    LET pke == k_pke_keygen(d, 2, 2, r1, r2)
    IN  IF pke.status # "ok"
          THEN [status |-> pke.status, ek |-> <<>>, dk |-> <<>>]
          ELSE [status |-> "ok", ek |-> <<pke.ek_pke>>, dk |-> <<pke.dk_pke>>]

\* the value None of the optional argument sK
None == <<"None">>

\* ml_kem_keygen(d, sK) without the test of sK
ml_kem_keygen_unchecked(d, sK, r1, r2) == ml_kem_keygen_internal(d, r1, r2)

\* ml_kem_keygen(d, sK)
ml_kem_keygen(d, sK, r1, r2) ==
    IF sK # None /\ Len(sK) # 32
      THEN [status |-> "ValueError", ek |-> <<>>, dk |-> <<>>]
      ELSE ml_kem_keygen_internal(d, r1, r2)

\* the os.urandom calls of ml_kem_keygen(d, sK): those of k_pke_keygen, unless
\* the sK test raised first
ml_kem_keygen_urandom(sK, r1, r2) ==
    IF sK # None /\ Len(sK) # 32 THEN <<>> ELSE k_pke_keygen_urandom(r1, r2)

\* ml_kem_encaps_internal(ek, r, d) with ek[0] an object of the given Python
\* type: returns (c, K)
ml_kem_encaps_internal_as(type, ek, r, d) ==
    LET ek_pke          == At(ek, 0)
        hashed_ek       == H(ReprKeyAs(type, At(ek, 0)))
        ephemeral_input == hashed_ek \o r
        ephemeral_r     == G(ephemeral_input)[1]
        enc             == k_pke_encrypt(ek_pke, ephemeral_r, ephemeral_r, d, 2)
    IN  IF enc.status # "ok"
          THEN [status |-> enc.status, c |-> <<>>, K |-> <<>>]
          ELSE [status |-> "ok", c |-> enc.c, K |-> H(ephemeral_r)]

\* ml_kem_encaps_internal(ek, r, d) under a key ml_kem_keygen_internal returned
ml_kem_encaps_internal(ek, r, d) == ml_kem_encaps_internal_as("tuple", ek, r, d)

\* ml_kem_encaps(ek, d), with os.urandom returning r: returns (K, c)
ml_kem_encaps(ek, d, r) == ml_kem_encaps_internal(ek, r, d)

\* two draws in ml_kem_encaps
ml_kem_encaps_urandom_twice(r) == <<r, r>>

\* the os.urandom call of ml_kem_encaps(ek, d)
ml_kem_encaps_urandom(r) == <<r>>

\* returns the decrypted bytes themselves
ml_kem_decaps_internal_unhashed(dk, c, d) ==
    LET dec == k_pke_decrypt(At(dk, 0), c, d)
    IN  IF dec.status # "ok"
          THEN [status |-> dec.status, K |-> <<>>]
          ELSE [status |-> "ok", K |-> dec.m]

\* ml_kem_decaps_internal(dk, c, d)
ml_kem_decaps_internal(dk, c, d) ==
    LET dec == k_pke_decrypt(At(dk, 0), c, d)
    IN  IF dec.status # "ok"
          THEN [status |-> dec.status, K |-> <<>>]
          ELSE [status |-> "ok", K |-> H(dec.m)]

\* ml_kem_decaps(dk, c, d)
ml_kem_decaps(dk, c, d) == ml_kem_decaps_internal(dk, c, d)

(***************************************************************************)
(* RingCodec calls: test_conversion_algorithms drives byte_encode then      *)
(* byte_decode on a 256-array, and compress then decompress on an integer.  *)
(***************************************************************************)
MaxStride == 3
MaxOffset == 2

\* the arrays [(a*i + b) % m for i in range(256)] (the tests use a = 1, b = 0)
RampArray(a, b, m) == [i \in 1..256 |-> (a * (i-1) + b) % m]

\* offsets 0, 1, ... and the largest value m-1
OffsetSet(m) == (0..(MaxOffset - 1)) \cup {m - 1}

ByteCodecIdle ==
    cd_pc = "idle" /\ cd_d = 0 /\ cd_F = <<>> /\ cd_B = <<>> /\ cd_G = <<>>

CompressIdle ==
    cx_pc = "idle" /\ cx_d = 0 /\ cx_x = 0 /\ cx_y = 0 /\ cx_z = 0

ByteCodecInit ==
    /\ cd_pc = "input"
    /\ cd_d \in 1..12
    /\ \E a \in 0..MaxStride : \E b \in OffsetSet(EncModulus(cd_d)) :
          cd_F = RampArray(a, b, EncModulus(cd_d))
    /\ cd_B = <<>> /\ cd_G = <<>>


(***************************************************************************)
(* byte_encode called on any list: 256 entries in range, one entry out of   *)
(* range, or a list that is not 256 long.                                   *)
(***************************************************************************)
MaxEncodeD == 13
NumBadPositions == 2

BadPositions == <<0, 255, 128, 1>>

\* one entry replaced by the modulus, its successor, or -1
OutOfRangeArrays(d) ==
    {[RampArray(1, 0, EncModulus(d)) EXCEPT ![BadPositions[p] + 1] = v] :
        p \in 1..NumBadPositions, v \in {EncModulus(d), EncModulus(d) + 1, -1}}

WrongLengthArrays(d) ==
    {<<>>, SubSeq(RampArray(1, 0, EncModulus(d)), 1, 255),
     Append(RampArray(1, 0, EncModulus(d)), 0)}

ByteEncodeAnyInit ==
    /\ cd_pc = "input"
    /\ cd_d \in 1..MaxEncodeD
    /\ cd_F \in {RampArray(1, 0, EncModulus(cd_d))}
                  \cup OutOfRangeArrays(cd_d) \cup WrongLengthArrays(cd_d)
    /\ cd_B = <<>> /\ cd_G = <<>>

CompressInit ==
    /\ cx_pc = "input"
    /\ cx_d \in 1..11
    /\ cx_x \in 0..(Q - 1)
    /\ cx_y = 0 /\ cx_z = 0

ByteEncodeCall ==
    /\ cd_pc = "input"
    /\ IF byte_encode_raises(cd_F, cd_d)
         THEN cd_pc' = "ValueError" /\ cd_B' = <<>>
         ELSE cd_pc' = "encoded" /\ cd_B' = byte_encode(cd_F, cd_d)
    /\ UNCHANGED <<cd_d, cd_F, cd_G, cx_pc, cx_d, cx_x, cx_y, cx_z, xofVars, sampleVars, nttVars, pkeVars, kemVars, encapsVars, rngVars, messageVars, cbdVars, tableVars, ringVars>>

ByteDecodeCall ==
    /\ cd_pc = "encoded"
    /\ IF byte_decode_raises(cd_B, cd_d)
         THEN cd_pc' = "ValueError" /\ cd_G' = <<>>
         ELSE cd_pc' = "decoded" /\ cd_G' = byte_decode(cd_B, cd_d)
    /\ UNCHANGED <<cd_d, cd_F, cd_B, cx_pc, cx_d, cx_x, cx_y, cx_z, xofVars, sampleVars, nttVars, pkeVars, kemVars, encapsVars, rngVars, messageVars, cbdVars, tableVars, ringVars>>

CompressCall ==
    /\ cx_pc = "input"
    /\ IF compress_raises(cx_x, cx_d)
         THEN cx_pc' = "ValueError" /\ cx_y' = 0
         ELSE cx_pc' = "compressed" /\ cx_y' = compress(cx_x, cx_d)
    /\ UNCHANGED <<cd_pc, cd_d, cd_F, cd_B, cd_G, cx_d, cx_x, cx_z, xofVars, sampleVars, nttVars, pkeVars, kemVars, encapsVars, rngVars, messageVars, cbdVars, tableVars, ringVars>>

DecompressCall ==
    /\ cx_pc = "compressed"
    /\ IF decompress_raises(cx_y, cx_d)
         THEN cx_pc' = "ValueError" /\ cx_z' = 0
         ELSE cx_pc' = "decompressed" /\ cx_z' = decompress(cx_y, cx_d)
    /\ UNCHANGED <<cd_pc, cd_d, cd_F, cd_B, cd_G, cx_d, cx_x, cx_y, xofVars, sampleVars, nttVars, pkeVars, kemVars, encapsVars, rngVars, messageVars, cbdVars, tableVars, ringVars>>

ByteCodecNext == ByteEncodeCall \/ ByteDecodeCall

CompressNext == CompressCall \/ DecompressCall

CodecIdle == ByteCodecIdle /\ CompressIdle

(***************************************************************************)
(* An XOF object under absorb and squeeze calls.  xof_out lists the         *)
(* results of the squeeze calls made since the last absorb.                 *)
(***************************************************************************)
MaxAbsorbLen == 2
MaxSqueezes == 3
MaxSqueezeLen == 3

AbsorbChunks == {<<97>>, <<98>>}

XofIdle == xof_ctx = <<>> /\ xof_out = <<>>

XofInit == xof_ctx = XOF_init /\ xof_out = <<>>

XofAbsorb ==
    /\ Len(xof_ctx) < MaxAbsorbLen
    /\ \E data \in AbsorbChunks : xof_ctx' = XOF_absorb(xof_ctx, data)
    /\ xof_out' = <<>>
    /\ UNCHANGED <<codecVars, sampleVars, nttVars, pkeVars, kemVars, encapsVars, rngVars, messageVars, cbdVars, tableVars, ringVars>>

XofSqueeze ==
    /\ Len(xof_out) < MaxSqueezes
    /\ \E length \in 1..MaxSqueezeLen :
          xof_out' = Append(xof_out, XOF_squeeze(xof_ctx, length))
    /\ UNCHANGED <<xof_ctx, codecVars, sampleVars, nttVars, pkeVars, kemVars, encapsVars, rngVars, messageVars, cbdVars, tableVars, ringVars>>

XofNext == XofAbsorb \/ XofSqueeze

(***************************************************************************)
(* A sample_ntt call, one loop pass per step.  sn_tick is the parity of the *)
(* number of passes made.                                                   *)
(***************************************************************************)
NumSampleSeeds == 4

SeedBytes == <<0, 1, 5, 9, 2, 3>>

SampleInputs == {Rep(SeedBytes[i], 32) \o <<0, 0>> : i \in 1..NumSampleSeeds}

SampleIdle ==
    /\ sn_pc = "idle" /\ sn_B = <<>> /\ sn_ctx = <<>>
    /\ sn_coefficients = <<>> /\ sn_tick = 0

SampleInit ==
    /\ sn_pc = "input" /\ sn_B \in SampleInputs /\ sn_ctx = <<>>
    /\ sn_coefficients = <<>> /\ sn_tick = 0

\* lines 109-115: the length check, xof = XOF(); xof.absorb(B); coefficients = []
SampleNttEnter ==
    /\ sn_pc = "input"
    /\ IF sample_ntt_raises(sn_B)
         THEN sn_pc' = "ValueError" /\ UNCHANGED sn_ctx
         ELSE sn_pc' = "loop" /\ sn_ctx' = XOF_absorb(XOF_init, sn_B)
    /\ sn_coefficients' = <<>>
    /\ UNCHANGED <<sn_B, sn_tick, codecVars, xofVars, nttVars, pkeVars, kemVars, encapsVars, rngVars, messageVars, cbdVars, tableVars, ringVars>>

\* lines 117-133: one pass of the while loop; the call returns once 256
\* coefficients are collected
SampleNttPass ==
    /\ sn_pc = "loop"
    /\ Len(sn_coefficients) < 256
    /\ sn_coefficients' = SampleNttBody(sn_coefficients, XOF_squeeze(sn_ctx, 3))
    /\ sn_pc' = IF Len(sn_coefficients') < 256 THEN "loop" ELSE "done"
    /\ sn_tick' = 1 - sn_tick
    /\ UNCHANGED <<sn_B, sn_ctx, codecVars, xofVars, nttVars, pkeVars, kemVars, encapsVars, rngVars, messageVars, cbdVars, tableVars, ringVars>>

SampleNext == SampleNttEnter \/ SampleNttPass


(***************************************************************************)
(* sample_poly_cbd calls, as test_sampling_algorithms makes them.           *)
(***************************************************************************)
MaxCbdStride == 3
MaxCbdOffset == 6

\* bytes((a*i + b) % 256 for i in range(64 * eta)), and the tests' inputs
\* b'\xff' * (64 * eta) and bytes([0b10101010] * (64 * eta))
CbdInputs(eta) ==
    {[i \in 1..(64 * eta) |-> (a * (i-1) + b) % 256] : a \in 0..MaxCbdStride, b \in 0..MaxCbdOffset}
      \cup {Rep(255, 64 * eta), Rep(170, 64 * eta)}

CbdIdle == cb_pc = "idle" /\ cb_eta = 0 /\ cb_B = <<>> /\ cb_out = <<>>

CbdInit ==
    /\ cb_pc = "input" /\ cb_eta \in {2, 3} /\ cb_B \in CbdInputs(cb_eta)
    /\ cb_out = <<>>

SamplePolyCbdCall ==
    /\ cb_pc = "input"
    /\ IF sample_poly_cbd_raises(cb_eta, cb_B)
         THEN cb_pc' = "ValueError" /\ UNCHANGED cb_out
         ELSE cb_pc' = "done" /\ cb_out' = sample_poly_cbd(cb_eta, cb_B)
    /\ UNCHANGED <<cb_eta, cb_B, codecVars, xofVars, sampleVars, nttVars, pkeVars, kemVars, encapsVars, rngVars, messageVars, tableVars, ringVars>>

CbdNext == SamplePolyCbdCall

(***************************************************************************)
(* NTT calls, as test_ntt_operations makes them: ntt of f and g, then       *)
(* multiply_ntts, then ntt_inv of f_hat and of the product.                 *)
(***************************************************************************)
MaxDegree == 3

\* c * x^i
Monomial(c, i) == [k \in 1..N |-> IF k = i + 1 THEN c ELSE 0]

\* x + 1, [2] * N and [i % Q for i in range(N)] are the file's own examples
PolyInputs ==
    {Monomial(c, i) : c \in {1, Q - 1}, i \in (0..MaxDegree) \cup {N - 1}}
      \cup {[k \in 1..N |-> IF k <= 2 THEN 1 ELSE 0], RampArray(1, 0, Q)}

PolyInputsG ==
    {Monomial(1, i) : i \in 0..MaxDegree} \cup {[k \in 1..N |-> 2], RampArray(1, 0, Q)}

NttIdle ==
    /\ nt_pc = "idle" /\ nt_f = <<>> /\ nt_g = <<>> /\ nt_f_hat = <<>>
    /\ nt_g_hat = <<>> /\ nt_h_hat = <<>> /\ nt_f_back = <<>> /\ nt_h = <<>>

NttInit ==
    /\ nt_pc = "input" /\ nt_f \in PolyInputs /\ nt_g \in PolyInputsG
    /\ nt_f_hat = <<>> /\ nt_g_hat = <<>> /\ nt_h_hat = <<>>
    /\ nt_f_back = <<>> /\ nt_h = <<>>

NttCall ==
    /\ nt_pc = "input"
    /\ nt_f_hat' = ntt(nt_f)
    /\ nt_g_hat' = ntt(nt_g)
    /\ nt_pc' = "transformed"
    /\ UNCHANGED <<nt_f, nt_g, nt_h_hat, nt_f_back, nt_h, codecVars, xofVars, sampleVars, pkeVars, kemVars, encapsVars, rngVars, messageVars, cbdVars, tableVars, ringVars>>

MultiplyNttsCall ==
    /\ nt_pc = "transformed"
    /\ nt_h_hat' = multiply_ntts(nt_f_hat, nt_g_hat)
    /\ nt_pc' = "multiplied"
    /\ UNCHANGED <<nt_f, nt_g, nt_f_hat, nt_g_hat, nt_f_back, nt_h, codecVars, xofVars, sampleVars, pkeVars, kemVars, encapsVars, rngVars, messageVars, cbdVars, tableVars, ringVars>>

NttInvCall ==
    /\ nt_pc = "multiplied"
    /\ nt_f_back' = ntt_inv(nt_f_hat)
    /\ nt_h' = ntt_inv(nt_h_hat)
    /\ nt_pc' = "inverted"
    /\ UNCHANGED <<nt_f, nt_g, nt_f_hat, nt_g_hat, nt_h_hat, codecVars, xofVars, sampleVars, pkeVars, kemVars, encapsVars, rngVars, messageVars, cbdVars, tableVars, ringVars>>

NttNext == NttCall \/ MultiplyNttsCall \/ NttInvCall


(***************************************************************************)
(* The NTT calls above, followed by the two coefficient-wise operations of  *)
(* K-PKE on their results: poly_add as KeyGen and Encrypt apply it to a     *)
(* product and a second element, and the subtraction of Decrypt, which      *)
(* takes a product from a second element.                                   *)
(***************************************************************************)
RingIdle == rg_pc = "idle" /\ rg_sum = <<>> /\ rg_w_hat = <<>>

RingInit == rg_pc = "ready" /\ rg_sum = <<>> /\ rg_w_hat = <<>>

PolyAddCall ==
    /\ nt_pc = "inverted" /\ rg_pc = "ready"
    /\ rg_sum' = poly_add(nt_h_hat, nt_g_hat)
    /\ rg_pc' = "added"
    /\ UNCHANGED <<rg_w_hat, codecVars, xofVars, sampleVars, nttVars, pkeVars, kemVars, encapsVars, rngVars, messageVars, cbdVars, tableVars>>

DecryptSubtractCall ==
    /\ rg_pc = "added"
    /\ rg_w_hat' = DecryptSubtract(nt_g_hat, nt_h_hat)
    /\ rg_pc' = "subtracted"
    /\ UNCHANGED <<rg_sum, codecVars, xofVars, sampleVars, nttVars, pkeVars, kemVars, encapsVars, rngVars, messageVars, cbdVars, tableVars>>

RingNext == NttNext \/ PolyAddCall \/ DecryptSubtractCall


(***************************************************************************)
(* The tables ZETA_PRECOMP and GAMMA_PRECOMP are lists built when the       *)
(* module is loaded; the functions above only read them.  A lookup takes    *)
(* an index i, bit-reverses it and reads both tables at i.                  *)
(***************************************************************************)
TablesLoaded == zeta_precomp = ZETA_PRECOMP /\ gamma_precomp = GAMMA_PRECOMP

TablesIdle ==
    /\ TablesLoaded
    /\ tb_pc = "idle" /\ tb_i = 0 /\ tb_rev = 0 /\ tb_zeta = 0 /\ tb_gamma = 0

TablesInit ==
    /\ TablesLoaded
    /\ tb_pc = "ready" /\ tb_i = 0 /\ tb_rev = 0 /\ tb_zeta = 0 /\ tb_gamma = 0

BitRevCall ==
    /\ tb_pc = "ready"
    /\ \E i \in 0..(Len(zeta_precomp) - 1) :
         /\ tb_i' = i
         /\ tb_rev' = bitrev7(i)
    /\ tb_pc' = "reversed"
    /\ UNCHANGED <<zeta_precomp, gamma_precomp, tb_zeta, tb_gamma, codecVars, xofVars, sampleVars, nttVars, pkeVars, kemVars, encapsVars, rngVars, messageVars, cbdVars, ringVars>>

TableRead ==
    /\ tb_pc = "reversed"
    /\ tb_zeta' = At(zeta_precomp, tb_i)
    /\ tb_gamma' = At(gamma_precomp, tb_i)
    /\ tb_pc' = "read"
    /\ UNCHANGED <<zeta_precomp, gamma_precomp, tb_i, tb_rev, codecVars, xofVars, sampleVars, nttVars, pkeVars, kemVars, encapsVars, rngVars, messageVars, cbdVars, ringVars>>

TablesNext == BitRevCall \/ TableRead

(***************************************************************************)
(* K-PKE runs: k_pke_keygen, then k_pke_encrypt under the key it returned,  *)
(* then k_pke_decrypt of the ciphertext.  Each call takes its own d, as the *)
(* functions do.  os.urandom is the choice of r1 and r2.                    *)
(***************************************************************************)
NumKeySeeds == 2
NumASeeds == 3
NumEncSeeds == 2
NumMessages == 2

DSet == {8, 10, 12}

KeySeedBytes == <<1, 2, 3>>
ASeedBytes == <<1, 0, 5, 9>>
EncSeedBytes == <<1, 2, 3>>
MessageBytes == <<0, 255, 90>>

KeySeeds == {Rep(KeySeedBytes[i], 32) : i \in 1..NumKeySeeds}
ASeeds == {Rep(ASeedBytes[i], 32) : i \in 1..NumASeeds}
EncSeeds == {Rep(EncSeedBytes[i], 32) : i \in 1..NumEncSeeds}
Messages == {Rep(MessageBytes[i], 32) : i \in 1..NumMessages}

\* ciphertexts that no encryption returned: any bytes object can be passed as c
NumForgeBytes == 2

ForgeByteValues == <<0, 165, 255>>

ForgeDSet == {1, 8, 10, 11}

\* lengths at, next to and at half of 64 * d
ForgeLengths == UNION {{64 * d, 64 * d - 1, 64 * d + 1, 32 * d} : d \in ForgeDSet}

ForgedCiphertexts ==
    {Rep(ForgeByteValues[i], n) : i \in 1..NumForgeBytes, n \in ForgeLengths}

PkeIdle ==
    /\ pk_pc = "idle" /\ pk_kg = <<>> /\ pk_ek = <<>> /\ pk_dk = <<>>
    /\ pk_enc = <<>> /\ pk_c = <<>> /\ pk_dec = <<>> /\ pk_m = <<>>

PkeInit ==
    /\ pk_pc = "start" /\ pk_kg = <<>> /\ pk_ek = <<>> /\ pk_dk = <<>>
    /\ pk_enc = <<>> /\ pk_c = <<>> /\ pk_dec = <<>> /\ pk_m = <<>>

\* pk_kg records the call: <<d, r1, r2, status>>
PkeKeyGen ==
    /\ pk_pc = "start"
    /\ \E d \in DSet, r1 \in KeySeeds, r2 \in ASeeds :
         LET res == k_pke_keygen(d, 2, 2, r1, r2)
         IN  /\ pk_kg' = <<d, r1, r2, res.status>>
             /\ os_urandom' = os_urandom \o k_pke_keygen_urandom(r1, r2)
             /\ pk_ek' = res.ek_pke
             /\ pk_dk' = res.dk_pke
             /\ pk_pc' = IF res.status = "ok" THEN "keyed" ELSE res.status
    /\ UNCHANGED <<pk_enc, pk_c, pk_dec, pk_m, codecVars, xofVars, sampleVars, nttVars, kemVars, encapsVars, messageVars, cbdVars, tableVars, ringVars>>

\* pk_enc records the call: <<d, m, r, status>>
PkeEncrypt ==
    /\ pk_pc = "keyed"
    /\ \E d \in DSet, m \in Messages, r \in EncSeeds :
         LET res == k_pke_encrypt(pk_ek, m, r, d, 2)
         IN  /\ pk_enc' = <<d, m, r, res.status>>
             /\ pk_c' = res.c
             /\ pk_pc' = IF res.status = "ok" THEN "encrypted" ELSE res.status
    /\ UNCHANGED <<pk_kg, pk_ek, pk_dk, pk_dec, pk_m, codecVars, xofVars, sampleVars, nttVars, kemVars, encapsVars, rngVars, messageVars, cbdVars, tableVars, ringVars>>

\* pk_dec records the call: <<d, status>>
PkeDecrypt ==
    /\ pk_pc = "encrypted"
    /\ \E d \in DSet :
         LET res == k_pke_decrypt(pk_dk, pk_c, d)
         IN  /\ pk_dec' = <<d, res.status>>
             /\ pk_m' = res.m
             /\ pk_pc' = IF res.status = "ok" THEN "decrypted" ELSE res.status
    /\ UNCHANGED <<pk_kg, pk_ek, pk_dk, pk_enc, pk_c, codecVars, xofVars, sampleVars, nttVars, kemVars, encapsVars, rngVars, messageVars, cbdVars, tableVars, ringVars>>

PkeNext == PkeKeyGen \/ PkeEncrypt \/ PkeDecrypt


(***************************************************************************)
(* K-PKE runs in which the ciphertext handed to k_pke_decrypt need not come *)
(* from k_pke_encrypt, and d is any of ForgeDSet.                           *)
(***************************************************************************)
PkeReceive ==
    /\ pk_pc = "keyed"
    /\ pk_c' \in ForgedCiphertexts
    /\ pk_pc' = "received"
    /\ UNCHANGED <<pk_kg, pk_ek, pk_dk, pk_enc, pk_dec, pk_m, codecVars, xofVars, sampleVars, nttVars, kemVars, encapsVars, rngVars, messageVars, cbdVars, tableVars, ringVars>>

\* k_pke_decrypt(dk_pke, c, d) on that ciphertext; pk_dec records <<d, status>>
PkeDecryptAny ==
    /\ pk_pc = "received"
    /\ \E d \in ForgeDSet :
         LET res == k_pke_decrypt(pk_dk, pk_c, d)
         IN  /\ pk_dec' = <<d, res.status>>
             /\ pk_m' = res.m
             /\ pk_pc' = IF res.status = "ok" THEN "decrypted" ELSE res.status
    /\ UNCHANGED <<pk_kg, pk_ek, pk_dk, pk_enc, pk_c, codecVars, xofVars, sampleVars, nttVars, kemVars, encapsVars, rngVars, messageVars, cbdVars, tableVars, ringVars>>

PkeAnyNext == PkeNext \/ PkeReceive \/ PkeDecryptAny


(***************************************************************************)
(* encode_message on a message and decode_message on its result, and        *)
(* decode_message on a polynomial of any coefficients in [0, q).            *)
(***************************************************************************)
MaxMsgStride == 3
MaxMsgOffset == 8
DecodeWindow == 2

\* the byte strings bytes((a*i + b) % 256 for i in range(32)), and 32 bytes 0xff
MessageInputs ==
    {[i \in 1..32 |-> (a * (i-1) + b) % 256] : a \in 0..MaxMsgStride, b \in 0..MaxMsgOffset}
      \cup {Rep(255, 32)}

\* constant polynomials around q/2 and at the ends of [0, q), and a ramp
\* through q/2
DecodeInputs ==
    {Rep(c, 256) : c \in ((Q \div 2 - DecodeWindow)..(Q \div 2 + DecodeWindow)) \cup {0, Q - 1}}
      \cup {RampArray(1, Q \div 2 - 100, Q)}

MessageIdle == mg_pc = "idle" /\ mg_m = <<>> /\ mg_poly = <<>> /\ mg_out = <<>>

MessageInit ==
    /\ mg_out = <<>>
    /\ \/ mg_pc = "message" /\ mg_m \in MessageInputs /\ mg_poly = <<>>
       \/ mg_pc = "poly" /\ mg_m = <<>> /\ mg_poly \in DecodeInputs

EncodeMessageCall ==
    /\ mg_pc = "message"
    /\ IF encode_message_raises(mg_m)
         THEN mg_pc' = "ValueError" /\ UNCHANGED mg_poly
         ELSE mg_pc' = "encoded" /\ mg_poly' = encode_message(mg_m)
    /\ UNCHANGED <<mg_m, mg_out, codecVars, xofVars, sampleVars, nttVars, pkeVars, kemVars, encapsVars, rngVars, cbdVars, tableVars, ringVars>>

DecodeMessageCall ==
    /\ mg_pc \in {"encoded", "poly"}
    /\ IF bits_to_bytes_raises(decode_message_bits(mg_poly))
         THEN mg_pc' = "ValueError" /\ UNCHANGED mg_out
         ELSE mg_pc' = "decoded" /\ mg_out' = decode_message(mg_poly)
    /\ UNCHANGED <<mg_m, mg_poly, codecVars, xofVars, sampleVars, nttVars, pkeVars, kemVars, encapsVars, rngVars, cbdVars, tableVars, ringVars>>

MessageNext == EncodeMessageCall \/ DecodeMessageCall

(***************************************************************************)
(* ML-KEM runs, as the __main__ demos make them: ml_kem_keygen, then        *)
(* ml_kem_encaps under ek, then ml_kem_decaps of the ciphertext under dk.   *)
(***************************************************************************)
SKInputs == {None, Rep(7, 32), <<1, 2, 3>>}

KemIdle ==
    /\ km_pc = "idle" /\ km_kg = <<>> /\ km_ek = <<>> /\ km_dk = <<>>
    /\ km_enc = <<>> /\ km_c = <<>> /\ km_K = <<>> /\ km_dec = <<>> /\ km_K2 = <<>>

KemInit ==
    /\ km_pc = "start" /\ km_kg = <<>> /\ km_ek = <<>> /\ km_dk = <<>>
    /\ km_enc = <<>> /\ km_c = <<>> /\ km_K = <<>> /\ km_dec = <<>> /\ km_K2 = <<>>

\* km_kg records the call: <<d, sK, status>>
KemKeyGen ==
    /\ km_pc = "start"
    /\ \E d \in DSet, sK \in SKInputs, r1 \in KeySeeds, r2 \in ASeeds :
         LET res == ml_kem_keygen(d, sK, r1, r2)
         IN  /\ km_kg' = <<d, sK, res.status>>
             /\ os_urandom' = os_urandom \o ml_kem_keygen_urandom(sK, r1, r2)
             /\ km_ek' = res.ek
             /\ km_dk' = res.dk
             /\ km_pc' = IF res.status = "ok" THEN "keyed" ELSE res.status
    /\ UNCHANGED <<km_enc, km_c, km_K, km_dec, km_K2, codecVars, xofVars, sampleVars, nttVars, pkeVars, encapsVars, messageVars, cbdVars, tableVars, ringVars>>

\* km_enc records the call: <<d, status>>
KemEncaps ==
    /\ km_pc = "keyed"
    /\ \E d \in DSet, r \in EncSeeds :
         LET res == ml_kem_encaps(km_ek, d, r)
         IN  /\ km_enc' = <<d, res.status>>
             /\ os_urandom' = os_urandom \o ml_kem_encaps_urandom(r)
             /\ km_c' = res.c
             /\ km_K' = res.K
             /\ km_pc' = IF res.status = "ok" THEN "encapsulated" ELSE res.status
    /\ UNCHANGED <<km_kg, km_ek, km_dk, km_dec, km_K2, codecVars, xofVars, sampleVars, nttVars, pkeVars, encapsVars, messageVars, cbdVars, tableVars, ringVars>>

\* km_dec records the call: <<d, status>>
KemDecaps ==
    /\ km_pc = "encapsulated"
    /\ \E d \in DSet :
         LET res == ml_kem_decaps(km_dk, km_c, d)
         IN  /\ km_dec' = <<d, res.status>>
             /\ km_K2' = res.K
             /\ km_pc' = IF res.status = "ok" THEN "decapsulated" ELSE res.status
    /\ UNCHANGED <<km_kg, km_ek, km_dk, km_enc, km_c, km_K, codecVars, xofVars, sampleVars, nttVars, pkeVars, encapsVars, rngVars, messageVars, cbdVars, tableVars, ringVars>>

KemNext == KemKeyGen \/ KemEncaps \/ KemDecaps


(***************************************************************************)
(* ML-KEM runs in which the ciphertext handed to ml_kem_decaps need not     *)
(* come from ml_kem_encaps: any bytes object can be passed as c, and any d. *)
(***************************************************************************)
\* the caller holds a ciphertext that no ml_kem_encaps call returned
KemReceive ==
    /\ km_pc = "keyed"
    /\ km_c' \in ForgedCiphertexts
    /\ km_pc' = "received"
    /\ UNCHANGED <<km_kg, km_ek, km_dk, km_enc, km_K, km_dec, km_K2, codecVars, xofVars, sampleVars, nttVars, pkeVars, encapsVars, rngVars, messageVars, cbdVars, tableVars, ringVars>>

\* ml_kem_decaps(dk, c, d) on that ciphertext; km_dec records <<d, status>>
KemDecapsAny ==
    /\ km_pc = "received"
    /\ \E d \in ForgeDSet :
         LET res == ml_kem_decaps(km_dk, km_c, d)
         IN  /\ km_dec' = <<d, res.status>>
             /\ km_K2' = res.K
             /\ km_pc' = IF res.status = "ok" THEN "decapsulated" ELSE res.status
    /\ UNCHANGED <<km_kg, km_ek, km_dk, km_enc, km_c, km_K, codecVars, xofVars, sampleVars, nttVars, pkeVars, encapsVars, rngVars, messageVars, cbdVars, tableVars, ringVars>>

KemAnyNext == KemNext \/ KemReceive \/ KemDecapsAny


(***************************************************************************)
(* ml_kem_encaps_internal called twice with the same key value, r and d,    *)
(* the key held as a tuple (as ml_kem_keygen_internal builds it) or as a    *)
(* list of the same two polynomials.                                        *)
(***************************************************************************)
KeyTypes == {"tuple", "list"}

EncapsIdle ==
    /\ ei_pc = "idle" /\ ei_ek = <<>> /\ ei_call = <<>> /\ ei_out = <<>>
    /\ ei_call2 = <<>> /\ ei_out2 = <<>>

EncapsInit ==
    /\ ei_pc = "start" /\ ei_ek = <<>> /\ ei_call = <<>> /\ ei_out = <<>>
    /\ ei_call2 = <<>> /\ ei_out2 = <<>>

EncapsKeyGen ==
    /\ ei_pc = "start"
    /\ \E d \in DSet, r1 \in KeySeeds, r2 \in ASeeds :
         LET res == ml_kem_keygen_internal(d, r1, r2)
         IN  /\ ei_ek' = res.ek
             /\ os_urandom' = os_urandom \o k_pke_keygen_urandom(r1, r2)
             /\ ei_pc' = IF res.status = "ok" THEN "keyed" ELSE res.status
    /\ UNCHANGED <<ei_call, ei_out, ei_call2, ei_out2, codecVars, xofVars, sampleVars, nttVars, pkeVars, kemVars, messageVars, cbdVars, tableVars, ringVars>>

\* ei_call records the call: <<type of ek[0], r, d>>
EncapsInternalCall ==
    /\ ei_pc = "keyed"
    /\ \E type \in KeyTypes, r \in EncSeeds, d \in DSet :
         /\ ei_call' = <<type, r, d>>
         /\ ei_out' = ml_kem_encaps_internal_as(type, ei_ek, r, d)
    /\ ei_pc' = "called"
    /\ UNCHANGED <<ei_ek, ei_call2, ei_out2, codecVars, xofVars, sampleVars, nttVars, pkeVars, kemVars, rngVars, messageVars, cbdVars, tableVars, ringVars>>

\* the same r and d again, the key held as either type
EncapsInternalCallAgain ==
    /\ ei_pc = "called"
    /\ \E type \in KeyTypes :
         /\ ei_call2' = <<type, ei_call[2], ei_call[3]>>
         /\ ei_out2' = ml_kem_encaps_internal_as(type, ei_ek, ei_call[2], ei_call[3])
    /\ ei_pc' = "called twice"
    /\ UNCHANGED <<ei_ek, ei_call, ei_out, codecVars, xofVars, sampleVars, nttVars, pkeVars, kemVars, rngVars, messageVars, cbdVars, tableVars, ringVars>>

EncapsNext == EncapsKeyGen \/ EncapsInternalCall \/ EncapsInternalCallAgain


InitByteCodec == ByteCodecInit /\ CompressIdle /\ XofIdle /\ SampleIdle /\ NttIdle /\ PkeIdle /\ KemIdle /\ EncapsIdle /\ RngIdle /\ MessageIdle /\ CbdIdle /\ TablesIdle /\ RingIdle

SpecByteCodec == InitByteCodec /\ [][ByteCodecNext]_vars

InitByteEncodeAny == ByteEncodeAnyInit /\ CompressIdle /\ XofIdle /\ SampleIdle /\ NttIdle /\ PkeIdle /\ KemIdle /\ EncapsIdle /\ RngIdle /\ MessageIdle /\ CbdIdle /\ TablesIdle /\ RingIdle

SpecByteEncodeAny == InitByteEncodeAny /\ [][ByteCodecNext]_vars

InitCompress == CompressInit /\ ByteCodecIdle /\ XofIdle /\ SampleIdle /\ NttIdle /\ PkeIdle /\ KemIdle /\ EncapsIdle /\ RngIdle /\ MessageIdle /\ CbdIdle /\ TablesIdle /\ RingIdle

SpecCompress == InitCompress /\ [][CompressNext]_vars

InitXof == XofInit /\ CodecIdle /\ SampleIdle /\ NttIdle /\ PkeIdle /\ KemIdle /\ EncapsIdle /\ RngIdle /\ MessageIdle /\ CbdIdle /\ TablesIdle /\ RingIdle

SpecXof == InitXof /\ [][XofNext]_vars

InitSampleNtt == SampleInit /\ CodecIdle /\ XofIdle /\ NttIdle /\ PkeIdle /\ KemIdle /\ EncapsIdle /\ RngIdle /\ MessageIdle /\ CbdIdle /\ TablesIdle /\ RingIdle

SpecSampleNtt == InitSampleNtt /\ [][SampleNext]_vars

InitCbd == CbdInit /\ CodecIdle /\ XofIdle /\ SampleIdle /\ NttIdle /\ PkeIdle /\ KemIdle /\ EncapsIdle /\ RngIdle /\ MessageIdle /\ TablesIdle /\ RingIdle

SpecCbd == InitCbd /\ [][CbdNext]_vars

InitNtt == NttInit /\ CodecIdle /\ XofIdle /\ SampleIdle /\ PkeIdle /\ KemIdle /\ EncapsIdle /\ RngIdle /\ MessageIdle /\ CbdIdle /\ TablesIdle /\ RingIdle

SpecNtt == InitNtt /\ [][NttNext]_vars

InitRing == NttInit /\ RingInit /\ CodecIdle /\ XofIdle /\ SampleIdle /\ PkeIdle /\ KemIdle /\ EncapsIdle /\ RngIdle /\ MessageIdle /\ CbdIdle /\ TablesIdle

SpecRing == InitRing /\ [][RingNext]_vars

InitTables == TablesInit /\ CodecIdle /\ XofIdle /\ SampleIdle /\ NttIdle /\ PkeIdle /\ KemIdle /\ EncapsIdle /\ RngIdle /\ MessageIdle /\ CbdIdle /\ RingIdle

SpecTables == InitTables /\ [][TablesNext]_vars

InitPke == PkeInit /\ CodecIdle /\ XofIdle /\ SampleIdle /\ NttIdle /\ KemIdle /\ EncapsIdle /\ RngIdle /\ MessageIdle /\ CbdIdle /\ TablesIdle /\ RingIdle

SpecPke == InitPke /\ [][PkeNext]_vars

SpecPkeAny == InitPke /\ [][PkeAnyNext]_vars

InitMessage == MessageInit /\ CodecIdle /\ XofIdle /\ SampleIdle /\ NttIdle /\ PkeIdle /\ KemIdle /\ EncapsIdle /\ RngIdle /\ CbdIdle /\ TablesIdle /\ RingIdle

SpecMessage == InitMessage /\ [][MessageNext]_vars

InitKem == KemInit /\ CodecIdle /\ XofIdle /\ SampleIdle /\ NttIdle /\ PkeIdle /\ EncapsIdle /\ RngIdle /\ MessageIdle /\ CbdIdle /\ TablesIdle /\ RingIdle

SpecKem == InitKem /\ [][KemNext]_vars

SpecKemAny == InitKem /\ [][KemAnyNext]_vars

InitEncaps == EncapsInit /\ CodecIdle /\ XofIdle /\ SampleIdle /\ NttIdle /\ PkeIdle /\ KemIdle /\ RngIdle /\ MessageIdle /\ CbdIdle /\ TablesIdle /\ RingIdle

SpecEncaps == InitEncaps /\ [][EncapsNext]_vars

\* the loop runs to completion: a pass that can be made is eventually made
FairSpecSampleNtt == SpecSampleNtt /\ WF_vars(SampleNttPass)

Abs(v) == IF v < 0 THEN -v ELSE v

\* C7: for 1 <= d <= 12 and a 256-array F with entries in [0, m), m = 2^d
\* (d < 12) or q (d = 12), byte_encode(F, d) does not raise, is 32*d bytes
\* long, and byte_decode of it does not raise and gives back F.
C7_ByteRoundTrip ==
    /\ cd_pc # "ValueError"
    /\ cd_pc \in {"encoded", "decoded"} => Len(cd_B) = 32 * cd_d
    /\ cd_pc = "decoded" => cd_G = cd_F

C7_Witness ==
    /\ cd_pc = "decoded" /\ cd_d = 12
    /\ \E k \in 1..256 : cd_F[k] = Q - 1 /\ cd_G[k] = Q - 1

\* C8: for d = 10 and every x in [0, q), decompress(compress(x, 10), 10) is
\* within 5 of x and lies in [0, q).
C8_CompressError ==
    (cx_pc = "decompressed" /\ cx_d = 10) =>
        /\ Abs(cx_z - cx_x) <= 5
        /\ 0 <= cx_z /\ cx_z < Q

C8_Witness == cx_pc = "decompressed" /\ cx_d = 10 /\ cx_x = 1234 /\ cx_z # cx_x

RECURSIVE SqueezedBefore(_, _)
\* n1 + ... + n(k-1): the bytes handed out by the first k-1 squeeze calls
SqueezedBefore(out, k) ==
    IF k <= 1 THEN 0 ELSE SqueezedBefore(out, k - 1) + Len(out[k - 1])

\* C1: the k-th squeeze call since the last absorb returns stream bytes
\* [n1+...+n(k-1), n1+...+nk) of the one output stream of the absorbed data.
C1_SqueezeStreams ==
    \A k \in 1..Len(xof_out) :
        xof_out[k] = XOF_squeeze_from(xof_ctx, SqueezedBefore(xof_out, k), Len(xof_out[k]))

\* C2: every sample_ntt call on a 34-byte input returns, with exactly 256
\* values, each in [0, 3329).
C2_SampleNttReturns ==
    <>( /\ sn_pc = "done"
        /\ Len(sn_coefficients) = 256
        /\ \A k \in 1..Len(sn_coefficients) :
              0 <= sn_coefficients[k] /\ sn_coefficients[k] < Q )

\* coefficient k of f*g takes f[i]*g[k-i] for i <= k and, as x^256 = -1,
\* -f[i]*g[k-i+256] for i > k
SchoolbookTerm(f, g, k, i) ==
    IF i <= k THEN At(f, i) * At(g, k - i) ELSE 0 - At(f, i) * At(g, k - i + N)

RECURSIVE SchoolbookSum(_, _, _, _, _)
\* the terms i = lo..hi of coefficient k, halving the range
SchoolbookSum(f, g, k, lo, hi) ==
    IF lo = hi THEN SchoolbookTerm(f, g, k, lo)
    ELSE LET mid == (lo + hi) \div 2
         IN  SchoolbookSum(f, g, k, lo, mid) + SchoolbookSum(f, g, k, mid + 1, hi)

\* the product of f and g in Z_q[x]/(x^256 + 1)
Schoolbook(f, g) == [k \in 1..N |-> SchoolbookSum(f, g, k - 1, 0, N - 1) % Q]

\* C5: for every f with 256 entries in [0, q), ntt_inv(ntt(f)) = f.
C5_NttRoundTrip == nt_pc = "inverted" => nt_f_back = nt_f

\* C6: for every f, g with entries in [0, q), ntt_inv(multiply_ntts(ntt(f),
\* ntt(g))) is the schoolbook product of f and g modulo x^256 + 1 and q.
C6_NttProduct == nt_pc = "inverted" => nt_h = Schoolbook(nt_f, nt_g)

\* C9: for every d in {8, 10, 12} and all 32-byte seeds r1, r2,
\* k_pke_keygen(d, 2, 2) returns without raising, with the public key
\* (A, t_hat), the secret key (byte_encode(t_hat, d), s1, s2) and
\* t_hat = multiply_ntts(A, ntt(s1)) + ntt(s2) mod q.
C9_KeyGenCompletes ==
    pk_kg # <<>> =>
        /\ pk_kg[4] = "ok"
        /\ Len(pk_ek) = 2 /\ Len(pk_dk) = 3
        /\ pk_dk[1] = byte_encode(pk_ek[2], pk_kg[1])
        /\ pk_ek[2] = poly_add(multiply_ntts(pk_ek[1], ntt(pk_dk[2])), ntt(pk_dk[3]))

\* C10: for every d in {8, 10, 12}, every key (A, t_hat) with coefficients
\* in [0, q), every 32-byte m and r, k_pke_encrypt returns without raising
\* a ciphertext c1 || c2 of 2 * (256 * d / 8) bytes, each half the
\* byte_encode at d bits of values compress(., d) produced.
C10_EncryptCompletes ==
    pk_enc # <<>> =>
        /\ pk_enc[4] = "ok"
        /\ Len(pk_c) = 2 * ((256 * pk_enc[1]) \div 8)
        /\ \A half \in {Prefix(pk_c, Len(pk_c) \div 2), Suffix(pk_c, Len(pk_c) \div 2)} :
               byte_encode(byte_decode(half, pk_enc[1]), pk_enc[1]) = half

\* C3: at d = 10 and eta = 2, for a key pair k_pke_keygen produced, a
\* 32-byte m and a 32-byte r, k_pke_decrypt of k_pke_encrypt of m is m.
C3_DecryptRecovers ==
    (pk_pc = "decrypted" /\ pk_enc[1] = 10 /\ pk_dec[1] = 10) => pk_m = pk_enc[2]

\* C4: for a key pair ml_kem_keygen produced and (K, c) returned by
\* ml_kem_encaps(ek, d), ml_kem_decaps(dk, c, d) returns K.
C4_DecapsAgrees ==
    (km_pc = "decapsulated" /\ km_enc[1] = km_dec[1]) => km_K2 = km_K

\* C11: for every decapsulation key and every ciphertext c of 64 * d bytes
\* (d in 1..11), from ml_kem_encaps or not, ml_kem_decaps(dk, c, d) returns
\* H(k_pke_decrypt(dk_pke, c, d)) and never an error or a rejection value.
C11_DecapsHashesDecrypt ==
    (km_dec # <<>> /\ km_dec[1] \in 1..11 /\ Len(km_c) = 64 * km_dec[1]) =>
        /\ km_dec[2] = "ok"
        /\ k_pke_decrypt(km_dk[1], km_c, km_dec[1]).status = "ok"
        /\ km_K2 = sha3_256(k_pke_decrypt(km_dk[1], km_c, km_dec[1]).m)

C11_Witness ==
    /\ km_pc = "decapsulated" /\ km_enc = <<>> /\ km_dec = <<10, "ok">>
    /\ km_c = Rep(165, 640) /\ Len(km_K2) = 32

\* the value e of an ml_kem_encaps_internal call: the first 32 bytes of
\* G(H(text of the key) || r)
EphemeralOf(call) == SubSeq(sha3_512(sha3_256(ReprKeyAs(call[1], ei_ek[1])) \o call[2]), 1, 32)

\* C12: ml_kem_encaps_internal(ek, r, d) takes e = first 32 bytes of
\* G(H(bytes of the key) || r), encrypts e with e as the randomness and
\* returns (c, K) with K = H(e); the bytes hashed depend only on the key
\* value (A, t_hat), so two representations of one key give the same c and K.
C12_EncapsInternal ==
    ei_pc = "called twice" =>
        /\ ei_out.status = "ok" =>
             /\ ei_out.c = k_pke_encrypt(ei_ek[1], EphemeralOf(ei_call), EphemeralOf(ei_call),
                                         ei_call[3], 2).c
             /\ ei_out.K = sha3_256(EphemeralOf(ei_call))
        /\ ei_out2 = ei_out

\* C13: for d in 1..11 and every secret key, k_pke_decrypt(sk, c, d) raises
\* and returns no message whenever len(c) # 2 * 32 * d (c is split into its
\* first 32 * d bytes and the rest, and byte_decode rejects a part that is
\* not 32 * d bytes); when len(c) = 64 * d it returns 32 bytes without error.
C13_DecryptLength ==
    (pk_dec # <<>> /\ pk_dec[1] \in 1..11) =>
        IF Len(pk_c) = 64 * pk_dec[1]
          THEN pk_dec[2] = "ok" /\ pk_pc = "decrypted" /\ Len(pk_m) = 32
          ELSE pk_dec[2] = "ValueError" /\ pk_pc = "ValueError" /\ pk_m = <<>>

C13_Witness ==
    /\ pk_dec = <<10, "ValueError">> /\ Len(pk_c) = 64 * 10 + 1 /\ pk_m = <<>>

\* C14: byte_encode(F, d) raises and returns no bytes whenever len(F) # 256
\* or an entry of F is outside [0, m), m = 2^d for d < 12 and m = 3329 for
\* d >= 12; no truncated or wrapped value is ever encoded.
C14_ByteEncodeRejects ==
    LET m == IF cd_d < 12 THEN 2 ^ cd_d ELSE 3329
    IN  (cd_pc # "input" /\ (Len(cd_F) # 256 \/ \E k \in 1..Len(cd_F) : cd_F[k] < 0 \/ cd_F[k] >= m))
            => cd_pc = "ValueError" /\ cd_B = <<>>

C14_Witness ==
    /\ cd_pc = "ValueError" /\ cd_d = 10 /\ Len(cd_F) = 256
    /\ \E k \in 1..256 : cd_F[k] = 1024

\* C15: ml_kem_keygen(d, sK) raises, before any key is generated, when sK is
\* given and is not 32 bytes long; when sK is absent or 32 bytes long the
\* keys returned are those the randomness source's outputs decide, whatever
\* sK is (same sK and other outputs of the source can give other keys).
C15_KeyGenSeed ==
    km_kg # <<>> =>
        IF km_kg[2] # None /\ Len(km_kg[2]) # 32
          THEN /\ km_kg[3] = "ValueError"
               /\ km_ek = <<>> /\ km_dk = <<>>
               /\ os_urandom = <<>>
          ELSE /\ Len(os_urandom) >= 2
               /\ [status |-> km_kg[3], ek |-> km_ek, dk |-> km_dk]
                    = ml_kem_keygen_internal(km_kg[1], os_urandom[1], os_urandom[2])

C15_Witness ==
    /\ km_pc = "keyed" /\ km_kg = <<12, Rep(7, 32), "ok">>
    /\ os_urandom = <<Rep(2, 32), Rep(1, 32)>>
    /\ km_ek # ml_kem_keygen_internal(12, Rep(1, 32), Rep(1, 32)).ek

\* the os.urandom calls of an ML-KEM run so far, with perKeyGen calls for a
\* key generation that got past its argument test and one for an Encaps
DrawsSoFar(perKeyGen) ==
    (IF km_kg # <<>> /\ (km_kg[2] = None \/ Len(km_kg[2]) = 32) THEN perKeyGen ELSE 0)
      + (IF km_enc # <<>> THEN 1 ELSE 0)

\* what Encaps and Decaps returned is what the _internal functions give for
\* the explicit arguments and the value drawn
OutputsDetermined ==
    /\ km_enc # <<>> =>
         LET res == ml_kem_encaps_internal(km_ek, os_urandom[Len(os_urandom)], km_enc[1])
         IN  km_enc[2] = res.status /\ km_c = res.c /\ km_K = res.K
    /\ (km_dec # <<>> /\ km_enc # <<>>) =>
         LET res == ml_kem_decaps_internal(km_dk, km_c, km_dec[1])
         IN  km_dec[2] = res.status /\ km_K2 = res.K

\* C16 (as stated): every operation is a function of its explicit inputs and
\* its randomness draws; Encaps_internal and Decaps_internal (and the Encrypt
\* and Decrypt inside them) never call the randomness source, and each KeyGen
\* call and each Encaps call calls it exactly once.
C16_OneDrawEach == Len(os_urandom) = DrawsSoFar(1) /\ OutputsDetermined

\* C16 (amended): as above, but a KeyGen call calls the randomness source
\* exactly twice (r1, then r2), and not at all when ml_kem_keygen rejects sK;
\* each Encaps call calls it exactly once.
C16_TwoDrawsPerKeyGen == Len(os_urandom) = DrawsSoFar(2) /\ OutputsDetermined

C16_Witness ==
    /\ km_pc = "decapsulated" /\ Len(os_urandom) = 3
    /\ km_kg[3] = "ok" /\ km_enc[2] = "ok" /\ km_dec[2] = "ok"

\* C17: decode_message maps each of the 256 coefficients c of w (c in [0, q))
\* to bit 0 exactly when c < q/2, that is c <= 1664, and to bit 1 otherwise;
\* and decode_message(encode_message(m)) = m for every 32-byte m.
C17_DecodeMessage ==
    mg_pc = "decoded" =>
        /\ Len(mg_out) = 32
        /\ \A i \in 1..256 :
             bytes_to_bits(mg_out)[i] = (IF mg_poly[i] <= 1664 THEN 0 ELSE 1)
        /\ mg_m # <<>> => mg_out = mg_m

\* bit k of the byte string B, the lowest bit of each byte first
BitOf(B, k) == (B[(k \div 8) + 1] \div (2 ^ (k % 8))) % 2

RECURSIVE PopCount(_, _, _)
\* the number of one bits among bits lo .. hi-1 of B
PopCount(B, lo, hi) == IF lo >= hi THEN 0 ELSE BitOf(B, lo) + PopCount(B, lo + 1, hi)

\* C18: for eta in {2, 3} and B of 64 * eta bytes, sample_poly_cbd(eta, B)
\* returns 256 coefficients, coefficient i being (popcount of bits
\* [2*eta*i, 2*eta*i + eta) minus popcount of bits [2*eta*i + eta,
\* 2*eta*(i+1))) mod q, so each lies in 0..eta or q-eta..q-1; an all-ones
\* input gives all-zero coefficients.
C18_SamplePolyCbd ==
    (cb_pc # "input" /\ cb_eta \in {2, 3} /\ Len(cb_B) = 64 * cb_eta) =>
        /\ cb_pc = "done"
        /\ Len(cb_out) = 256
        /\ \A i \in 0..255 :
             /\ cb_out[i + 1] =
                  (PopCount(cb_B, 2 * cb_eta * i, 2 * cb_eta * i + cb_eta)
                     - PopCount(cb_B, 2 * cb_eta * i + cb_eta, 2 * cb_eta * (i + 1))) % 3329
             /\ cb_out[i + 1] \in (0..cb_eta) \cup ((3329 - cb_eta)..3328)
        /\ (\A k \in 1..Len(cb_B) : cb_B[k] = 255) => \A i \in 1..256 : cb_out[i] = 0

C18_Witness ==
    /\ cb_pc = "done" /\ cb_eta = 3 /\ Len(cb_B) = 192
    /\ \E i \in 1..256 : cb_out[i] \in 3326..3328
    /\ \E i \in 1..256 : cb_out[i] \in 1..3

RECURSIVE PowMod(_, _, _)
\* b^e mod q by repeated squaring
PowMod(b, e, q) ==
    IF e = 0 THEN 1 % q
    ELSE LET half == PowMod(b, e \div 2, q)
         IN  IF e % 2 = 0 THEN (half * half) % q ELSE (((half * half) % q) * b) % q

\* C19: for every i in 0..127, ZETA_PRECOMP[i] = 17^bitrev7(i) mod q and
\* GAMMA_PRECOMP[i] is congruent mod q to 17^(2*bitrev7(i)+1), with q = 3329
\* and bitrev7 the reversal of the 7 bits of i; the tables are never written
\* after the module is loaded.
C19_Tables ==
    /\ zeta_precomp = ZETA_PRECOMP /\ gamma_precomp = GAMMA_PRECOMP
    /\ Len(zeta_precomp) = 128 /\ Len(gamma_precomp) = 128
    /\ tb_pc \in {"reversed", "read"} =>
         \A j \in 0..6 : (tb_rev \div (2 ^ j)) % 2 = (tb_i \div (2 ^ (6 - j))) % 2
    /\ tb_pc = "read" =>
         /\ tb_zeta = PowMod(17, tb_rev, 3329)
         /\ (tb_gamma - PowMod(17, 2 * tb_rev + 1, 3329)) % 3329 = 0

C19_Witness ==
    /\ tb_pc = "read" /\ tb_i = 1 /\ tb_rev = 64
    /\ tb_zeta = 1729 /\ tb_gamma < 0

InRange(f) == \A i \in 1..Len(f) : f[i] \in 0..(Q - 1)

RECURSIVE NttPasses(_, _, _)
\* the arrays ntt holds after each pass of its while loop
NttPasses(f_hat, length, k) ==
    IF ~(length >= 2) THEN {}
    ELSE LET after == NttLayer(f_hat, length, k)
         IN  {after} \cup NttPasses(after, Shr(length, 1), k + N \div (2 * length))

RECURSIVE NttInvPasses(_, _, _)
\* the arrays ntt_inv holds after each pass of its while loop
NttInvPasses(f, length, k) ==
    IF ~(length <= 128) THEN {}
    ELSE LET after == NttInvLayer(f, length, k)
         IN  {after} \cup NttInvPasses(after, Shl(length, 1), k - N \div (2 * length))

\* A butterfly writes two entries of the array; after any number of
\* butterflies of a pass every entry is the one before the pass or the one
\* after it, so the arrays between passes cover every butterfly step.
CoefficientsInRange ==
    /\ InRange(nt_f) /\ InRange(nt_g)
    /\ nt_pc \in {"transformed", "multiplied", "inverted"} =>
         /\ Len(nt_f_hat) = 256 /\ InRange(nt_f_hat)
         /\ Len(nt_g_hat) = 256 /\ InRange(nt_g_hat)
         /\ \A a \in NttPasses(nt_f, 128, 1) \cup NttPasses(nt_g, 128, 1) : InRange(a)
    /\ nt_pc \in {"multiplied", "inverted"} =>
         /\ Len(nt_h_hat) = 256 /\ InRange(nt_h_hat)
         /\ \A i \in 0..127 :
              InRange(base_case_multiply(At(nt_f_hat, 2*i), At(nt_f_hat, 2*i + 1),
                                         At(nt_g_hat, 2*i), At(nt_g_hat, 2*i + 1),
                                         At(GAMMA_PRECOMP, i)))
    /\ nt_pc = "inverted" =>
         /\ Len(nt_f_back) = 256 /\ InRange(nt_f_back)
         /\ Len(nt_h) = 256 /\ InRange(nt_h)
         /\ \A a \in NttInvPasses(nt_f_hat, 2, 127) \cup NttInvPasses(nt_h_hat, 2, 127) :
              InRange(a)
    /\ rg_pc \in {"added", "subtracted"} => Len(rg_sum) = 256 /\ InRange(rg_sum)
    /\ rg_pc = "subtracted" => Len(rg_w_hat) = 256 /\ InRange(rg_w_hat)

\* what a call passes in is what the caller still holds after it
InputsKept ==
    /\ nt_f' = nt_f /\ nt_g' = nt_g
    /\ nt_pc = "multiplied" => nt_f_hat' = nt_f_hat /\ nt_h_hat' = nt_h_hat
    /\ nt_pc = "transformed" => nt_f_hat' = nt_f_hat /\ nt_g_hat' = nt_g_hat

\* C20: for inputs with all 256 coefficients in [0, q), the outputs of ntt,
\* ntt_inv, base_case_multiply and multiply_ntts (pairs with a negative
\* GAMMA_PRECOMP entry included), poly_add and the subtraction of Decrypt,
\* and the array after every butterfly step, have all coefficients in
\* [0, q); the list passed to ntt or ntt_inv is left unchanged.
C20_CoefficientRange == [] CoefficientsInRange /\ [][InputsKept]_vars

\* a pair with a negative gamma and a1 * b1 not a multiple of q has been
\* multiplied, a sum has wrapped past q and a difference has gone below 0
C20_Witness ==
    /\ rg_pc = "subtracted"
    /\ \E i \in 0..127 :
         /\ At(GAMMA_PRECOMP, i) < 0
         /\ (At(nt_f_hat, 2*i + 1) * At(nt_g_hat, 2*i + 1)) % Q # 0
    /\ \E i \in 1..256 : nt_h_hat[i] + nt_g_hat[i] >= Q
    /\ \E i \in 1..256 : nt_g_hat[i] - nt_h_hat[i] < 0

====
